---- MODULE Spec2Model ----
(***************************************************************************)
(* Indexing and hybrid retrieval pipeline of the technical documentation   *)
(* assistant: the token-window chunker (ingestion/chunker.py) and the      *)
(* reciprocal-rank-fusion retriever (retrieval/retriever.py) over the      *)
(* documents table (storage/db.py).                                        *)
(*                                                                         *)
(* Python floats are modelled as exact rationals <<numerator,              *)
(* denominator>> in lowest terms; Python lists as sequences (positions are *)
(* 0-based in the code and kept 0-based in `start` and in the windows).    *)
(***************************************************************************)
EXTENDS Integers, Sequences, FiniteSets, TLC

VARIABLES
    \* ---- TextChunker (ingestion/chunker.py) ----
    chunk_size,        \* settings.chunking.chunk_size
    chunk_overlap,     \* settings.chunking.chunk_overlap
    text,              \* argument of chunk_text, a sequence of characters
    tokens,            \* self.encoding.encode(text)
    start,             \* loop variable of chunk_text
    chunks,            \* list built (and returned) by chunk_text
    windows,           \* per chunk: the value of start and chunk_tokens
    chunk_pc,          \* "idle" | "loop" | "done"
    \* ---- VectorDB / HybridRetriever ----
    documents,         \* the documents table: chunk_id -> row
    top_k,             \* arguments of retrieve
    semantic_weight,
    repo_name,
    file_type,
    semantic_results,  \* result of db.semantic_search
    keyword_results,   \* result of db.keyword_search
    results,           \* value returned by _rerank / retrieve
    retrieve_pc,       \* "idle" | "embed" | "semantic" | "keyword" | "rerank" | "done" | "raised"
    \* ---- DocumentIndexer.index_repo (ingestion/indexer.py) ----
    index_pc,          \* "idle" | "files" | "returned" | "raised"
    run_repo,          \* argument of index_repo
    head,              \* the checkout sync_repo left: content version, and whether git log answers
    files,             \* files of the run not yet processed
    all_chunks,        \* all_chunks of index_repo
    errors_of_run,     \* metrics.errors of the run
    utcnow,            \* the clock read by datetime.utcnow(), one tick per run
    generated,         \* every (repo, path, ordinal, chunk_id) _process_file has produced
    last_upsert,       \* chunk_id -> the chunk of the latest upsert that carried it
    store_before,      \* the documents table when the run was called
    calls_of_run,      \* the calls of the run to sync_repo, embed_batch and upsert_chunks, in order
    files_log,         \* the _process_file calls of the run: the file, whether it raised, its chunks
    \* ---- Embedder.embed_batch (retrieval/embedder.py) ----
    embed_pc,          \* "idle" | "loop" | "returned" | "raised"
    texts,             \* argument of embed_batch
    batch_start,       \* the loop variable i of embed_batch
    embeddings,        \* embeddings of embed_batch
    api_calls,         \* every embeddings.create call so far: its input and whether it succeeded
    embed_result,      \* the list embed_batch returned, None while it has returned nothing
    \* ---- InputValidator.validate_query (guardrails/validator.py) ----
    query,             \* the user's query
    input_pc,          \* "idle" | "done"
    input_result,      \* the pair validate_query returned, None before the call
    \* ---- ResponseValidator.validate (guardrails/validator.py) ----
    response,          \* the generated text
    retrieved_chunks,  \* the context the text was generated from
    citations,         \* list(citations) of _extract_citations, in the order the set gave
    validate_pc,       \* "idle" | "checking" | "returned" | "annotated"
    validation,        \* the triple validate returned, None before the return
    with_warnings,     \* the text add_warnings_to_response returned, None before the call
    \* ---- LLMOrchestrator.query (orchestration/orchestrator.py) ----
    query_pc,          \* "idle" | "retrieving" | "generating" | "returned" | "raised"
    retrievals,        \* how often query has called retriever.retrieve
    llm_calls,         \* how often query has called the language model
    context_chunks,    \* context_chunks of query
    message,           \* response.choices[0].message of the model call, NoMessage before it
    answer,            \* the dictionary query returned, None before the return
    \* ---- index_repos (main.py) ----
    main_pc,           \* "idle" | "loop" | "done"
    configured_repos,  \* settings.github.repos
    repos_left,        \* the part of settings.github.repos the for loop has not finished
    runs_log,          \* one entry per index_repo call that has ended, in call order
    \* ---- VectorDB.upsert_chunks followed by HybridRetriever.retrieve_by_file ----
    by_file_path,      \* argument file_path of retrieve_by_file, None before the call
    stored_chunks,     \* chunk_id -> the chunk object upsert_chunks was last given for it
    store_calls        \* how often upsert_chunks has been called

chunk_vars == <<chunk_size, chunk_overlap, text, tokens, start, chunks, windows, chunk_pc>>
retrieve_vars == <<documents, top_k, semantic_weight, repo_name, file_type,
                   semantic_results, keyword_results, results, retrieve_pc>>
index_vars == <<index_pc, run_repo, head, files, all_chunks, errors_of_run, utcnow, generated, last_upsert,
               store_before, calls_of_run, files_log>>
vars == <<chunk_size, chunk_overlap, text, tokens, start, chunks, windows, chunk_pc,
          documents, top_k, semantic_weight, repo_name, file_type,
          semantic_results, keyword_results, results, retrieve_pc,
          index_pc, run_repo, head, files, all_chunks, errors_of_run, utcnow, generated, last_upsert,
          store_before, calls_of_run, files_log,
          embed_pc, texts, batch_start, embeddings, api_calls, embed_result,
          query, input_pc, input_result,
          response, retrieved_chunks, citations, validate_pc, validation, with_warnings,
          query_pc, retrievals, llm_calls, context_chunks, message, answer,
          main_pc, configured_repos, repos_left, runs_log,
          by_file_path, stored_chunks, store_calls>>
embed_vars == <<embed_pc, texts, batch_start, embeddings, api_calls, embed_result>>

input_vars == <<query, input_pc, input_result>>

validate_vars == <<response, retrieved_chunks, citations, validate_pc, validation, with_warnings>>

query_vars == <<query_pc, retrievals, llm_calls, context_chunks, message, answer>>

main_vars == <<main_pc, configured_repos, repos_left, runs_log>>

by_file_vars == <<by_file_path, stored_chunks, store_calls>>

\* the variables of the components after the indexer
later_vars == <<embed_vars, input_vars, validate_vars, query_vars, main_vars, by_file_vars>>

\* the variables of the components other than the chunker and the retriever
other_vars == <<index_vars, later_vars>>

(***************************************************************************)
(* Bounds of the model                                                     *)
(***************************************************************************)
MaxTextLen == 5

MaxChunkSize == 4

MaxTopK == 4

\* cap on the loop iterations explored for one chunk_text call; a call with
\* chunk_overlap < chunk_size over at most 2 * MaxTextLen tokens never needs more
MaxChunks == 2 * MaxTextLen + 1

None == "None"

Min(a, b) == IF a < b THEN a ELSE b

Take(s, n) == SubSeq(s, 1, Min(n, Len(s)))

(***************************************************************************)
(* Python list slicing  s[i:j]  (0-based, negative indices count from the  *)
(* end, out-of-range indices are clamped)                                  *)
(***************************************************************************)
PyIndex(i, n) == IF i < 0 THEN (IF i + n < 0 THEN 0 ELSE i + n)
                          ELSE (IF i > n THEN n ELSE i)

PySlice(s, i, j) ==
    LET lo == PyIndex(i, Len(s))
        hi == PyIndex(j, Len(s))
    IN  IF lo < hi THEN SubSeq(s, lo + 1, hi) ELSE <<>>

(***************************************************************************)
(* The tokenizer.  cl100k_base is a byte-level BPE: a character of one     *)
(* byte is one token, a wide character ("w") is split over two tokens that *)
(* each hold part of its UTF-8 bytes.  decode joins the bytes of the       *)
(* tokens and decodes them with errors="replace": a "W1" that is not       *)
(* followed by its "W2", or a "W2" that does not follow a "W1", becomes    *)
(* the replacement character "?".                                          *)
(***************************************************************************)
Chars == {"a", "w"}

CharTokens(c) == IF c = "w" THEN <<"W1", "W2">> ELSE <<c>>

\* the tokens of characters lo..hi of t, in order (halving keeps the
\* evaluation depth logarithmic in the length of the text)
RECURSIVE EncodeRange(_, _, _)
EncodeRange(t, lo, hi) ==
    IF lo > hi THEN <<>>
    ELSE IF lo = hi THEN CharTokens(t[lo])
    ELSE LET mid == (lo + hi) \div 2
         IN  EncodeRange(t, lo, mid) \o EncodeRange(t, mid + 1, hi)

Encode(t) == EncodeRange(t, 1, Len(t))

\* the characters that token i of toks contributes to the decoded text
DecodePiece(toks, i) ==
    IF toks[i] = "W1"
    THEN (IF i < Len(toks) /\ toks[i + 1] = "W2" THEN <<"w">> ELSE <<"?">>)
    ELSE IF toks[i] = "W2"
    THEN (IF i > 1 /\ toks[i - 1] = "W1" THEN <<>> ELSE <<"?">>)
    ELSE <<toks[i]>>

RECURSIVE DecodeRange(_, _, _)
DecodeRange(toks, lo, hi) ==
    IF lo > hi THEN <<>>
    ELSE IF lo = hi THEN DecodePiece(toks, lo)
    ELSE LET mid == (lo + hi) \div 2
         IN  DecodeRange(toks, lo, mid) \o DecodeRange(toks, mid + 1, hi)

Decode(toks) == DecodeRange(toks, 1, Len(toks))

(***************************************************************************)
(* TextChunker.chunk_text                                                  *)
(***************************************************************************)
DefaultChunkSize == 512

DefaultChunkOverlap == 50

\* off-by-one variant of Fits
Fits_Strict(toks, size) == Len(toks) < size

\* chunker.py:26  if len(tokens) <= self.chunk_size
Fits(toks, size) == Len(toks) <= size

\* variant of NextStart that skips a token
NextStart_Gap(end, overlap) == end - overlap + 1

\* variant of NextStart that drops the overlap
NextStart_NoOverlap(end, overlap) == end

\* chunker.py:38  start = end - self.chunk_overlap
NextStart(end, overlap) == end - overlap

\* chunker.py:24-30: encode, the single-chunk return, or entry into the loop
ChunkText ==
    /\ chunk_pc = "idle"
    /\ tokens' = Encode(text)
    /\ IF Fits(tokens', chunk_size)
       THEN /\ chunks' = <<text>>
            /\ windows' = <<[start |-> 0, tokens |-> tokens']>>
            /\ start' = start
            /\ chunk_pc' = "done"
       ELSE /\ chunks' = <<>>
            /\ windows' = <<>>
            /\ start' = 0
            /\ chunk_pc' = "loop"
    /\ UNCHANGED <<chunk_size, chunk_overlap, text>>
    /\ UNCHANGED <<retrieve_vars, other_vars>>

\* chunker.py:32-38: one iteration of the while loop
ChunkLoop ==
    /\ chunk_pc = "loop"
    /\ start < Len(tokens)
    /\ Len(chunks) < MaxChunks
    /\ LET end == start + chunk_size
           chunk_tokens == PySlice(tokens, start, end)
       IN  /\ chunks' = Append(chunks, Decode(chunk_tokens))
           /\ windows' = Append(windows, [start |-> start, tokens |-> chunk_tokens])
           /\ start' = NextStart(end, chunk_overlap)
    /\ UNCHANGED <<chunk_size, chunk_overlap, text, tokens, chunk_pc>>
    /\ UNCHANGED <<retrieve_vars, other_vars>>

\* chunker.py:32,40: the loop condition fails, chunks is returned
ChunkReturn ==
    /\ chunk_pc = "loop"
    /\ ~(start < Len(tokens))
    /\ chunk_pc' = "done"
    /\ UNCHANGED <<chunk_size, chunk_overlap, text, tokens, start, chunks, windows>>
    /\ UNCHANGED <<retrieve_vars, other_vars>>

Texts == UNION {[1..n -> Chars] : n \in 0..MaxTextLen}

\* the text of the stability property: 1000 one-token characters
StabilityText == [i \in 1..1000 |-> "a"]

\* indexer.py:16-21: a DocumentIndexer on which index_repo is not running
IndexIdle ==
    /\ index_pc = "idle"
    /\ run_repo = None
    /\ head = None
    /\ files = <<>>
    /\ all_chunks = <<>>
    /\ errors_of_run = <<>>
    /\ utcnow = 0
    /\ generated = {}
    /\ last_upsert = <<>>
    /\ store_before = <<>>
    /\ calls_of_run = <<>>
    /\ files_log = <<>>

\* embedder.py:11-14: an Embedder on which embed_batch is not running
EmbedIdle ==
    /\ embed_pc = "idle"
    /\ texts = <<>>
    /\ batch_start = 0
    /\ embeddings = <<>>
    /\ api_calls = <<>>
    /\ embed_result = None

\* validator.py:137-139: an InputValidator that has been given no query
InputIdle ==
    /\ query = ""
    /\ input_pc = "idle"
    /\ input_result = None

\* validator.py:12-13: a ResponseValidator that has been given no response
ValidateIdle ==
    /\ response = ""
    /\ retrieved_chunks = <<>>
    /\ citations = <<>>
    /\ validate_pc = "idle"
    /\ validation = None
    /\ with_warnings = None

\* the model has not been called
NoMessage == [content |-> "", tool_calls |-> <<>>]

\* orchestrator.py:17-24: an LLMOrchestrator on which query is not running
QueryIdle ==
    /\ query_pc = "idle"
    /\ retrievals = 0
    /\ llm_calls = 0
    /\ context_chunks = <<>>
    /\ message = NoMessage
    /\ answer = None

\* main.py:11-15: index_repos is not running
MainIdle ==
    /\ main_pc = "idle"
    /\ configured_repos = <<>>
    /\ repos_left = <<>>
    /\ runs_log = <<>>

\* db.py:22-51, retriever.py:12-13: nothing stored through upsert_chunks yet
\* and retrieve_by_file not called
ByFileIdle ==
    /\ by_file_path = None
    /\ stored_chunks = <<>>
    /\ store_calls = 0

LaterIdle == EmbedIdle /\ InputIdle /\ ValidateIdle /\ QueryIdle /\ MainIdle /\ ByFileIdle

OthersIdle == IndexIdle /\ LaterIdle

RetrieveIdle ==
    /\ documents = <<>>
    /\ top_k = 0
    /\ semantic_weight = <<0, 1>>
    /\ repo_name = None
    /\ file_type = None
    /\ semantic_results = <<>>
    /\ keyword_results = <<>>
    /\ results = <<>>
    /\ retrieve_pc = "idle"

InitChunk ==
    /\ \/ /\ text \in Texts
          /\ chunk_size \in 1..MaxChunkSize
          /\ chunk_overlap \in 0..MaxChunkSize
       \/ /\ text = StabilityText
          /\ chunk_size = DefaultChunkSize
          /\ chunk_overlap = DefaultChunkOverlap
    /\ tokens = <<>>
    /\ start = 0
    /\ chunks = <<>>
    /\ windows = <<>>
    /\ chunk_pc = "idle"
    /\ RetrieveIdle
    /\ OthersIdle

NextChunk == ChunkText \/ ChunkLoop \/ ChunkReturn

SpecChunk == InitChunk /\ [][NextChunk]_vars

(***************************************************************************)
(* Exact rational arithmetic for the float scores                          *)
(***************************************************************************)
RECURSIVE GCD(_, _)
GCD(a, b) == IF b = 0 THEN a ELSE GCD(b, a % b)

RatNorm(r) == IF r[1] = 0 THEN <<0, 1>>
              ELSE LET g == GCD(r[1], r[2]) IN <<r[1] \div g, r[2] \div g>>

RatAdd(a, b) == RatNorm(<<a[1] * b[2] + b[1] * a[2], a[2] * b[2]>>)

RatSub(a, b) == RatNorm(<<a[1] * b[2] - b[1] * a[2], a[2] * b[2]>>)

RatMul(a, b) == RatNorm(<<a[1] * b[1], a[2] * b[2]>>)

RatLess(a, b) == a[1] * b[2] < b[1] * a[2]

Zero == <<0, 1>>

One == <<1, 1>>

(***************************************************************************)
(* The documents table and its two queries (storage/db.py)                 *)
(***************************************************************************)
ChunkIds == {"A", "B", "C", "D"}

Repos == {"r1", "r2"}

FileTypes == {"md", "py"}

Row(id, repository, ftype) ==
    [chunk_id |-> id, repo_name |-> repository, file_path |-> "docs/" \o id \o "." \o ftype,
     file_type |-> ftype, text |-> "text of " \o id, embedding |-> "vec(text of " \o id \o ")",
     commit_hash |-> "hash of " \o id, commit_date |-> 0, author |-> "dev",
     github_url |-> "https://github.com/" \o repository \o "/blob/main/docs/" \o id \o "." \o ftype,
     last_indexed |-> 0]

\* contents of the table when a query arrives: rows of several repositories
\* and file types, or a table with fewer rows than any query limit
SeedStores ==
    { [id \in ChunkIds |->
          Row(id, IF id = "C" THEN "r2" ELSE "r1", IF id = "B" THEN "py" ELSE "md")],
      [id \in {"A", "B"} |-> Row(id, "r1", "md")] }

\* the rows of a SELECT in result order: any sequence of distinct ids of ids
\* (chunk_id is UNIQUE, db.py:37, so no row is returned twice)
Orderings(ids) ==
    {o \in UNION {[1..n -> ids] : n \in 0..Cardinality(ids)} :
        \A i, j \in 1..Len(o) : i # j => o[i] # o[j]}

\* db.py:229  a row without commit_date gives None
NoDate == [kind |-> "none", hour |-> 0]

\* db.py:229  row[6].isoformat(): the ISO string of a stored timestamp,
\* written here as the hour it names
IsoFormat(timestamp) == [kind |-> "iso", hour |-> timestamp]

\* db.py:222-235 / 292-305: the dictionary built from a fetched row; signal
\* names the ranking key it carries ('similarity' or 'rank')
Doc(row, signal) ==
    [chunk_id |-> row.chunk_id, repo_name |-> row.repo_name, file_path |-> row.file_path,
     file_type |-> row.file_type, text |-> row.text, commit_hash |-> row.commit_hash,
     commit_date |-> IsoFormat(row.commit_date), signal |-> signal]

\* db.py:187-199: WHERE clause of semantic_search; which rows reach the
\* similarity threshold is decided by the vector index (the set close)
SemanticMatches(close, repo, ftype) ==
    {id \in close :
        /\ (repo # None => documents[id].repo_name = repo)
        /\ (ftype # None => documents[id].file_type = ftype)}

\* db.py:264-271: WHERE clause of keyword_search; which rows match the
\* tsquery is decided by the full-text index (the set hits)
KeywordMatches(hits, repo) ==
    {id \in hits : repo # None => documents[id].repo_name = repo}

(***************************************************************************)
(* HybridRetriever._rerank                                                 *)
(***************************************************************************)
K == 60

\* variant of RRFTerm with 0-based ranks
RRFTerm_ZeroBased(weight, rank) == RatMul(weight, <<1, K + rank - 1>>)

\* variant of RRFTerm without the constant k
RRFTerm_NoDamping(weight, rank) == RatMul(weight, <<1, rank>>)

\* retriever.py:102,107  weight * (1.0 / (k + rank))
RRFTerm(weight, rank) == RatMul(weight, <<1, K + rank>>)

\* retriever.py:85
KeywordWeight(w) == RatSub(One, w)

\* variant of AllDocs in which the lexical record replaces the semantic one
AllDocs_KeywordWins(sem, kw) ==
    [id \in {sem[i].chunk_id : i \in 1..Len(sem)} \cup {kw[i].chunk_id : i \in 1..Len(kw)} |->
        IF \E i \in 1..Len(kw) : kw[i].chunk_id = id
        THEN kw[CHOOSE i \in 1..Len(kw) : kw[i].chunk_id = id]
        ELSE sem[CHOOSE i \in 1..Len(sem) : sem[i].chunk_id = id]]

\* retriever.py:88-94: chunk_id -> document, the semantic record wins
AllDocs(sem, kw) ==
    [id \in {sem[i].chunk_id : i \in 1..Len(sem)} \cup {kw[i].chunk_id : i \in 1..Len(kw)} |->
        IF \E i \in 1..Len(sem) : sem[i].chunk_id = id
        THEN sem[CHOOSE i \in 1..Len(sem) : sem[i].chunk_id = id
                    /\ \A j \in 1..Len(sem) : sem[j].chunk_id = id => j <= i]
        ELSE kw[CHOOSE i \in 1..Len(kw) : kw[i].chunk_id = id]]

\* retriever.py:97-107: scores is a defaultdict(float); keys holds its keys in
\* insertion order, val its values.  One loop over docs with enumerate(docs, 1).
RECURSIVE AddScores(_, _, _, _)
AddScores(scores, docs, weight, rank) ==
    IF rank > Len(docs) THEN scores
    ELSE LET chunk_id == docs[rank].chunk_id
             known == chunk_id \in DOMAIN scores.val
             old == IF known THEN scores.val[chunk_id] ELSE Zero
             next == [keys |-> IF known THEN scores.keys ELSE Append(scores.keys, chunk_id),
                      val |-> [c \in DOMAIN scores.val \cup {chunk_id} |->
                                  IF c = chunk_id THEN RatAdd(old, RRFTerm(weight, rank))
                                  ELSE scores.val[c]]]
         IN  AddScores(next, docs, weight, rank + 1)

Scores(sem, kw, w) ==
    AddScores(AddScores([keys |-> <<>>, val |-> <<>>], sem, w, 1), kw, KeywordWeight(w), 1)

\* variant of InsertDesc that is not stable
InsertDesc_TiesFirst(sorted, x, val) ==
    LET before == {i \in 1..Len(sorted) : RatLess(val[x], val[sorted[i]])}
        n == Cardinality(before)
    IN  SubSeq(sorted, 1, n) \o <<x>> \o SubSeq(sorted, n + 1, Len(sorted))

\* one insertion of a stable descending sort: x goes after every element
\* whose score is not smaller than its own
InsertDesc(sorted, x, val) ==
    LET before == {i \in 1..Len(sorted) : ~RatLess(val[sorted[i]], val[x])}
        n == Cardinality(before)
    IN  SubSeq(sorted, 1, n) \o <<x>> \o SubSeq(sorted, n + 1, Len(sorted))

\* retriever.py:110  sorted(scores.keys(), key=lambda x: scores[x], reverse=True)
\* (Python's sort is stable, also with reverse=True)
RECURSIVE SortedDesc(_, _)
SortedDesc(keys, val) ==
    IF keys = <<>> THEN <<>>
    ELSE InsertDesc(SortedDesc(SubSeq(keys, 1, Len(keys) - 1), val), keys[Len(keys)], val)

\* off-by-one variant of TopSlice
TopSlice_OneMore(ids, k) == Take(ids, k + 1)

\* retriever.py:114  ranked_ids[:top_k]
TopSlice(ids, k) == PySlice(ids, 0, k)

\* retriever.py:115-116  doc = all_docs[chunk_id].copy(); doc['combined_score'] = ...
WithScore(doc, score) ==
    [chunk_id |-> doc.chunk_id, repo_name |-> doc.repo_name, file_path |-> doc.file_path,
     file_type |-> doc.file_type, text |-> doc.text, commit_hash |-> doc.commit_hash,
     commit_date |-> doc.commit_date, signal |-> doc.signal, combined_score |-> score]

\* retriever.py:73-119
Rerank(sem, kw, w, k) ==
    LET all_docs == AllDocs(sem, kw)
        scores == Scores(sem, kw, w)
        ranked_ids == SortedDesc(scores.keys, scores.val)
        top == TopSlice(ranked_ids, k)
    IN  [i \in 1..Len(top) |-> WithScore(all_docs[top[i]], scores.val[top[i]])]

(***************************************************************************)
(* HybridRetriever.retrieve                                                *)
(***************************************************************************)
Weights == {<<0, 1>>, <<1, 2>>, <<7, 10>>, <<1, 1>>}

\* retriever.py:15-36: retrieve is called
RetrieveCall ==
    /\ retrieve_pc = "idle"
    /\ top_k' \in 1..MaxTopK
    /\ semantic_weight' \in Weights
    /\ repo_name' \in Repos \cup {None}
    /\ file_type' \in FileTypes \cup {None}
    /\ semantic_results' = <<>>
    /\ keyword_results' = <<>>
    /\ results' = <<>>
    /\ retrieve_pc' = "embed"
    /\ UNCHANGED documents
    /\ UNCHANGED <<chunk_vars, other_vars>>

\* retriever.py:39: the query embedding is obtained
EmbedQuery ==
    /\ retrieve_pc = "embed"
    /\ retrieve_pc' = "semantic"
    /\ UNCHANGED <<documents, top_k, semantic_weight, repo_name, file_type,
                   semantic_results, keyword_results, results>>
    /\ UNCHANGED <<chunk_vars, other_vars>>

\* retriever.py:42-48 with db.py:187-237: rows over the threshold that pass
\* both filters, nearest first, at most 2 * top_k of them
SemanticSearch ==
    /\ retrieve_pc = "semantic"
    /\ \E close \in SUBSET DOMAIN documents :
         \E order \in Orderings(SemanticMatches(close, repo_name, file_type)) :
            /\ Len(order) = Cardinality(SemanticMatches(close, repo_name, file_type))
            /\ semantic_results' =
                  [i \in 1..Min(top_k * 2, Len(order)) |-> Doc(documents[order[i]], "similarity")]
    /\ retrieve_pc' = "keyword"
    /\ UNCHANGED <<documents, top_k, semantic_weight, repo_name, file_type,
                   keyword_results, results>>
    /\ UNCHANGED <<chunk_vars, other_vars>>

\* retriever.py:53-57 with db.py:264-307: rows matching the text query that
\* pass the repository filter, best rank first, at most top_k of them
KeywordSearch ==
    /\ retrieve_pc = "keyword"
    /\ \E hits \in SUBSET DOMAIN documents :
         \E order \in Orderings(KeywordMatches(hits, repo_name)) :
            /\ Len(order) = Cardinality(KeywordMatches(hits, repo_name))
            /\ keyword_results' =
                  [i \in 1..Min(top_k, Len(order)) |-> Doc(documents[order[i]], "rank")]
    /\ retrieve_pc' = "rerank"
    /\ UNCHANGED <<documents, top_k, semantic_weight, repo_name, file_type,
                   semantic_results, results>>
    /\ UNCHANGED <<chunk_vars, other_vars>>

\* retriever.py:62-71: _rerank and return
RerankAndReturn ==
    /\ retrieve_pc = "rerank"
    /\ results' = Rerank(semantic_results, keyword_results, semantic_weight, top_k)
    /\ retrieve_pc' = "done"
    /\ UNCHANGED <<documents, top_k, semantic_weight, repo_name, file_type,
                   semantic_results, keyword_results>>
    /\ UNCHANGED <<chunk_vars, other_vars>>

\* retriever.py:39,42,53: embed_text (embedder.py:35-37) or a database call
\* raises; retrieve has no handler, the exception reaches the caller
CollaboratorRaises ==
    /\ retrieve_pc \in {"embed", "semantic", "keyword"}
    /\ retrieve_pc' = "raised"
    /\ UNCHANGED <<documents, top_k, semantic_weight, repo_name, file_type,
                   semantic_results, keyword_results, results>>
    /\ UNCHANGED <<chunk_vars, other_vars>>

ChunkIdle ==
    /\ chunk_size = DefaultChunkSize
    /\ chunk_overlap = DefaultChunkOverlap
    /\ text = <<>>
    /\ tokens = <<>>
    /\ start = 0
    /\ chunks = <<>>
    /\ windows = <<>>
    /\ chunk_pc = "idle"

InitRetrieve ==
    /\ documents \in SeedStores
    /\ top_k = 1
    /\ semantic_weight = <<7, 10>>
    /\ repo_name = None
    /\ file_type = None
    /\ semantic_results = <<>>
    /\ keyword_results = <<>>
    /\ results = <<>>
    /\ retrieve_pc = "idle"
    /\ ChunkIdle
    /\ OthersIdle

NextRetrieve ==
    \/ RetrieveCall
    \/ EmbedQuery
    \/ SemanticSearch
    \/ KeywordSearch
    \/ RerankAndReturn
    \/ CollaboratorRaises

SpecRetrieve == InitRetrieve /\ [][NextRetrieve]_vars

(***************************************************************************)
(* DocumentIndexer.index_repo and VectorDB.upsert_chunks                   *)
(***************************************************************************)
MaxRuns == 2

\* the ordinals a file's chunks can take in the model
Ordinals == {0, 1}

MaxFileChunks == Cardinality(Ordinals)

\* the files _get_files_to_process lists for each repository
RepoFiles ==
    [r \in Repos |-> IF r = "r1" THEN <<"docs/a.md", "src/b.py">>
                                  ELSE <<"docs/a.md", "docs::0/a.md">>]

\* content versions of a repository over time
Versions == {1, 2}

\* github_sync.py:32-48: the checkouts a sync can leave; git log answers for
\* the files of a checkout or does not (github_sync.py:157-186)
Heads ==
    {[version |-> 1, known |-> TRUE], [version |-> 2, known |-> TRUE],
     [version |-> 2, known |-> FALSE]}

\* variant of ChunkIdOf that leaves the ordinal out of the digest
ChunkIdOf_NoOrdinal(repository, path, chunk_index) ==
    "md5(" \o repository \o "::" \o path \o ")"

\* indexer.py:146-149: md5 of f"{repo_name}::{file_path}::{chunk_index}"; the
\* digest is taken as injective, its argument is kept as the id
ChunkIdOf(repository, path, chunk_index) ==
    "md5(" \o repository \o "::" \o path \o "::" \o ToString(chunk_index) \o ")"

\* github_sync.py:172-178 (git log found a commit) and 182-186 (the fallback)
Metadata(known, version, now) ==
    IF known
    THEN [commit_hash |-> "commit" \o ToString(version), commit_date |-> version,
          author |-> "dev <dev@example.org>"]
    ELSE [commit_hash |-> "unknown", commit_date |-> now, author |-> "unknown"]

\* indexer.py:134  file_path.suffix.lstrip('.'); the extensions of RepoFiles
\* have two letters
SuffixOf(path) == SubSeq(path, Len(path) - 1, Len(path))

\* indexer.py:121-142: the chunk objects of one file; chunk i (0-based) holds
\* text_chunks[i + 1]
FileChunks(repository, path, text_chunks, metadata) ==
    [k \in 1..Len(text_chunks) |->
        [chunk_id |-> ChunkIdOf(repository, path, k - 1),
         repo_name |-> repository,
         file_path |-> path,
         file_type |-> SuffixOf(path),
         text |-> text_chunks[k],
         commit_hash |-> metadata.commit_hash,
         commit_date |-> metadata.commit_date,
         author |-> metadata.author,
         github_url |-> "https://github.com/" \o repository \o "/blob/main/" \o path]]

\* the text of chunk k of a file at a content version
ChunkTextOf(path, version, k) ==
    path \o " v" \o ToString(version) \o " part " \o ToString(k)

\* embedder.py:65: the vector the API returns for a text
EmbeddingOf(t) == "vec(" \o t \o ")"

\* variant of ConflictUpdate that keeps the stored row (ON CONFLICT DO NOTHING)
ConflictUpdate_DoNothing(row, chunk, embedding, now) == row

\* db.py:136-142: ON CONFLICT (chunk_id) DO UPDATE SET ...
ConflictUpdate(row, chunk, embedding, now) ==
    [row EXCEPT !.text = chunk.text,
                !.embedding = embedding,
                !.commit_hash = chunk.commit_hash,
                !.commit_date = chunk.commit_date,
                !.author = chunk.author,
                !.last_indexed = now]

\* db.py:110-135: the row inserted for a chunk_id the table does not hold
InsertedRow(chunk, embedding, now) ==
    [chunk_id |-> chunk.chunk_id, repo_name |-> chunk.repo_name, file_path |-> chunk.file_path,
     file_type |-> chunk.file_type, text |-> chunk.text, embedding |-> embedding,
     commit_hash |-> chunk.commit_hash, commit_date |-> chunk.commit_date,
     author |-> chunk.author, github_url |-> chunk.github_url, last_indexed |-> now]

ChunkIdsOf(cs) == {cs[i].chunk_id : i \in 1..Len(cs)}

\* the statement proposes no chunk_id twice (PostgreSQL rejects an INSERT ...
\* ON CONFLICT DO UPDATE that would affect a row a second time)
DistinctIds(cs) == \A i, j \in 1..Len(cs) : cs[i].chunk_id = cs[j].chunk_id => i = j

\* variant of UpsertChunks that first deletes the rows of the repositories
\* the statement writes to
UpsertChunks_DeleteFirst(table, cs, vectors, now) ==
    [id \in {x \in DOMAIN table :
                \A i \in 1..Len(cs) : table[x].repo_name # cs[i].repo_name} \cup ChunkIdsOf(cs) |->
        IF id \notin ChunkIdsOf(cs) THEN table[id]
        ELSE LET i == CHOOSE i \in 1..Len(cs) : cs[i].chunk_id = id
             IN  InsertedRow(cs[i], vectors[i], now)]

\* db.py:128-147: the table after the INSERT ... ON CONFLICT statement commits
UpsertChunks(table, cs, vectors, now) ==
    [id \in DOMAIN table \cup ChunkIdsOf(cs) |->
        IF id \notin ChunkIdsOf(cs) THEN table[id]
        ELSE LET i == CHOOSE i \in 1..Len(cs) : cs[i].chunk_id = id
             IN  IF id \in DOMAIN table
                 THEN ConflictUpdate(table[id], cs[i], vectors[i], now)
                 ELSE InsertedRow(cs[i], vectors[i], now)]

\* ghost: the chunk and vector the latest upsert carried for each chunk_id,
\* and the text the table held for it when that upsert ran
RecordUpsert(last, table, cs, vectors) ==
    [id \in DOMAIN last \cup ChunkIdsOf(cs) |->
        IF id \notin ChunkIdsOf(cs) THEN last[id]
        ELSE LET i == CHOOSE i \in 1..Len(cs) : cs[i].chunk_id = id
             IN  [chunk |-> cs[i], embedding |-> vectors[i],
                  replaced |-> IF id \in DOMAIN table THEN table[id].text ELSE None]]

\* indexer.py:33-45 with github_sync.py:32-58: index_repo is called, the sync
\* succeeds and the files to process are listed
IndexRepoCall ==
    /\ index_pc \in {"idle", "returned", "raised"}
    /\ utcnow < MaxRuns
    /\ \E r \in Repos :
          /\ run_repo' = r
          /\ files' = RepoFiles[r]
    /\ head' \in Heads
    /\ all_chunks' = <<>>
    /\ errors_of_run' = <<>>
    /\ utcnow' = utcnow + 1
    /\ store_before' = documents
    /\ files_log' = <<>>
    /\ calls_of_run' = <<"sync_repo">>
    /\ index_pc' = "files"
    /\ UNCHANGED <<generated, last_upsert, documents>>
    /\ UNCHANGED <<top_k, semantic_weight, repo_name, file_type,
                   semantic_results, keyword_results, results, retrieve_pc>>
    /\ UNCHANGED <<chunk_vars, later_vars>>

\* indexer.py:35 with github_sync.py:50-53, 79-82, 110-113: clone or pull
\* fails; sync_repo records the error and re-raises, index_repo has no handler
IndexSyncFails ==
    /\ index_pc \in {"idle", "returned", "raised"}
    /\ utcnow < MaxRuns
    /\ \E r \in Repos : run_repo' = r
    /\ head' = None
    /\ files' = <<>>
    /\ all_chunks' = <<>>
    /\ errors_of_run' = <<"sync failed">>
    /\ utcnow' = utcnow + 1
    /\ store_before' = documents
    /\ files_log' = <<>>
    /\ calls_of_run' = <<"sync_repo raised">>
    /\ index_pc' = "raised"
    /\ UNCHANGED <<generated, last_upsert, documents>>
    /\ UNCHANGED <<top_k, semantic_weight, repo_name, file_type,
                   semantic_results, keyword_results, results, retrieve_pc>>
    /\ UNCHANGED <<chunk_vars, later_vars>>

\* indexer.py:50-53 with 108-144: _process_file on the next file returns its
\* chunk objects (none when the parser gives no content, indexer.py:112-113)
ProcessFile ==
    /\ index_pc = "files"
    /\ files # <<>>
    /\ \E n \in 0..MaxFileChunks :
          LET path == Head(files)
              text_chunks == [k \in 1..n |-> ChunkTextOf(path, head.version, k)]
              new == FileChunks(run_repo, path, text_chunks,
                                Metadata(head.known, head.version, utcnow))
          IN  /\ all_chunks' = all_chunks \o new
              /\ generated' = generated \cup
                    {[repo |-> run_repo, path |-> path, ordinal |-> k - 1,
                      chunk_id |-> new[k].chunk_id] : k \in 1..n}
              /\ files_log' = Append(files_log, [path |-> path, raised |-> FALSE, chunks |-> n])
    /\ files' = Tail(files)
    /\ UNCHANGED <<index_pc, run_repo, head, errors_of_run, utcnow, last_upsert, documents,
                   store_before, calls_of_run>>
    /\ UNCHANGED <<top_k, semantic_weight, repo_name, file_type,
                   semantic_results, keyword_results, results, retrieve_pc>>
    /\ UNCHANGED <<chunk_vars, later_vars>>

\* variant of AfterFileRaised without the handler of indexer.py:55-62: the
\* exception of _process_file ends the run
AfterFileRaised_Abort(pc) == "raised"

\* indexer.py:50-62: the exception of _process_file is handled inside the
\* for loop, which goes on
AfterFileRaised(pc) == pc

\* indexer.py:55-62: _process_file raises; the error is recorded and the loop
\* goes on with the next file
ProcessFileRaises ==
    /\ index_pc = "files"
    /\ files # <<>>
    /\ errors_of_run' = Append(errors_of_run, Head(files))
    /\ files_log' = Append(files_log, [path |-> Head(files), raised |-> TRUE, chunks |-> 0])
    /\ files' = Tail(files)
    /\ index_pc' = AfterFileRaised(index_pc)
    /\ UNCHANGED <<run_repo, head, all_chunks, utcnow, generated, last_upsert, documents,
                   store_before, calls_of_run>>
    /\ UNCHANGED <<top_k, semantic_weight, repo_name, file_type,
                   semantic_results, keyword_results, results, retrieve_pc>>
    /\ UNCHANGED <<chunk_vars, later_vars>>

\* indexer.py:65, 86-89: every file is processed and there is no chunk
IndexNoChunks ==
    /\ index_pc = "files"
    /\ files = <<>>
    /\ all_chunks = <<>>
    /\ index_pc' = "returned"
    /\ UNCHANGED <<run_repo, head, files, all_chunks, errors_of_run, utcnow, generated, last_upsert,
                   documents, store_before, calls_of_run, files_log>>
    /\ UNCHANGED <<top_k, semantic_weight, repo_name, file_type,
                   semantic_results, keyword_results, results, retrieve_pc>>
    /\ UNCHANGED <<chunk_vars, later_vars>>

\* indexer.py:65-77, 89 with db.py:104-149: the embeddings are generated and
\* the chunks are upserted in one committed statement
EmbedAndUpsert ==
    /\ index_pc = "files"
    /\ files = <<>>
    /\ all_chunks # <<>>
    /\ DistinctIds(all_chunks)
    /\ LET vectors == [i \in 1..Len(all_chunks) |-> EmbeddingOf(all_chunks[i].text)]
       IN  /\ documents' = UpsertChunks(documents, all_chunks, vectors, utcnow)
           /\ last_upsert' = RecordUpsert(last_upsert, documents, all_chunks, vectors)
    /\ calls_of_run' = calls_of_run \o <<"embed_batch", "upsert_chunks">>
    /\ index_pc' = "returned"
    /\ UNCHANGED <<run_repo, head, files, all_chunks, errors_of_run, utcnow, generated, store_before,
                   files_log>>
    /\ UNCHANGED <<top_k, semantic_weight, repo_name, file_type,
                   semantic_results, keyword_results, results, retrieve_pc>>
    /\ UNCHANGED <<chunk_vars, later_vars>>

\* variant of AfterEmbedBatchRaised in which index_repo handles the exception
\* and goes on
AfterEmbedBatchRaised_Handled(pc) == pc

\* indexer.py:69: index_repo has no handler around embed_batch, so the
\* exception of embedder.py:78-84 ends the run
AfterEmbedBatchRaised(pc) == "raised"

\* indexer.py:69 with embedder.py:78-84: embed_batch raises; upsert_chunks is
\* not reached
EmbedBatchRaises ==
    /\ index_pc = "files"
    /\ files = <<>>
    /\ all_chunks # <<>>
    /\ calls_of_run' = Append(calls_of_run, "embed_batch raised")
    /\ index_pc' = AfterEmbedBatchRaised(index_pc)
    /\ UNCHANGED <<run_repo, head, files, all_chunks, errors_of_run, utcnow, generated, last_upsert,
                   documents, store_before, files_log>>
    /\ UNCHANGED <<top_k, semantic_weight, repo_name, file_type,
                   semantic_results, keyword_results, results, retrieve_pc>>
    /\ UNCHANGED <<chunk_vars, later_vars>>

\* indexer.py:77 with db.py:151-154: the upsert fails and is rolled back; the
\* exception leaves index_repo and the table is as before
UpsertChunksRaises ==
    /\ index_pc = "files"
    /\ files = <<>>
    /\ all_chunks # <<>>
    /\ calls_of_run' = calls_of_run \o <<"embed_batch", "upsert_chunks raised">>
    /\ index_pc' = "raised"
    /\ UNCHANGED <<run_repo, head, files, all_chunks, errors_of_run, utcnow, generated, last_upsert,
                   documents, store_before, files_log>>
    /\ UNCHANGED <<top_k, semantic_weight, repo_name, file_type,
                   semantic_results, keyword_results, results, retrieve_pc>>
    /\ UNCHANGED <<chunk_vars, later_vars>>

\* db.py:22-51: the table is empty when the first run starts
InitIndex ==
    /\ IndexIdle
    /\ RetrieveIdle
    /\ ChunkIdle
    /\ LaterIdle

NextIndex ==
    \/ IndexRepoCall
    \/ IndexSyncFails
    \/ ProcessFile
    \/ ProcessFileRaises
    \/ IndexNoChunks
    \/ EmbedAndUpsert
    \/ EmbedBatchRaises
    \/ UpsertChunksRaises

SpecIndex == InitIndex /\ [][NextIndex]_vars

(***************************************************************************)
(* index_repos (main.py): one index_repo run per configured repository     *)
(***************************************************************************)
\* settings.py:12: GITHUB_REPOS split at the commas; a name may occur twice
ConfiguredRepos ==
    {<<a>> : a \in Repos} \cup {<<a, b>> : a \in Repos, b \in Repos}

\* variant of ReposLeftAfter without the handler of main.py:25-26: a run that
\* raised ends the loop
ReposLeftAfter_Abort(left, outcome) ==
    IF outcome = "raised" THEN <<>> ELSE Tail(left)

\* main.py:17-26: the for loop goes on with the next repository whether
\* index_repo returned or raised
ReposLeftAfter(left, outcome) == Tail(left)

\* the frame of the steps of index_repos itself
main_frame == <<chunk_vars, retrieve_vars, embed_vars, input_vars, validate_vars, query_vars,
                by_file_vars>>

\* main.py:17-19 with indexer.py:33-45: the loop calls index_repo for the next
\* configured repository and its sync succeeds
IndexReposCallsIndexRepo ==
    /\ main_pc = "loop"
    /\ index_pc = "idle"
    /\ repos_left # <<>>
    /\ IndexRepoCall
    /\ run_repo' = Head(repos_left)

\* main.py:17-19 with indexer.py:35: the loop calls index_repo for the next
\* configured repository and its sync fails
IndexReposSyncFails ==
    /\ main_pc = "loop"
    /\ index_pc = "idle"
    /\ repos_left # <<>>
    /\ IndexSyncFails
    /\ run_repo' = Head(repos_left)

\* main.py:19-26: index_repo returned (and the result is logged) or raised
\* (and the handler logs the failure); the loop takes the next repository
IndexRepoEnds ==
    /\ main_pc = "loop"
    /\ index_pc \in {"returned", "raised"}
    /\ runs_log' = Append(runs_log,
                          [repo |-> run_repo, outcome |-> index_pc, calls |-> calls_of_run,
                           chunks |-> Len(all_chunks),
                           store_unchanged |-> documents = store_before])
    /\ repos_left' = ReposLeftAfter(repos_left, index_pc)
    /\ index_pc' = "idle"
    /\ UNCHANGED <<run_repo, head, files, all_chunks, errors_of_run, utcnow, generated, last_upsert,
                   store_before, calls_of_run, files_log>>
    /\ UNCHANGED <<main_pc, configured_repos>>
    /\ UNCHANGED main_frame

\* main.py:28-40: the loop is over and the summary is printed
IndexReposReturns ==
    /\ main_pc = "loop"
    /\ index_pc = "idle"
    /\ repos_left = <<>>
    /\ main_pc' = "done"
    /\ UNCHANGED <<configured_repos, repos_left, runs_log>>
    /\ UNCHANGED index_vars
    /\ UNCHANGED main_frame

\* main.py:11-17: index_repos starts on the configured repositories
InitMain ==
    /\ main_pc = "loop"
    /\ configured_repos \in ConfiguredRepos
    /\ repos_left = configured_repos
    /\ runs_log = <<>>
    /\ IndexIdle
    /\ RetrieveIdle
    /\ ChunkIdle
    /\ EmbedIdle
    /\ InputIdle
    /\ ValidateIdle
    /\ QueryIdle
    /\ ByFileIdle

NextMain ==
    \/ IndexReposCallsIndexRepo
    \/ IndexReposSyncFails
    \/ ProcessFile
    \/ ProcessFileRaises
    \/ IndexNoChunks
    \/ EmbedAndUpsert
    \/ EmbedBatchRaises
    \/ UpsertChunksRaises
    \/ IndexRepoEnds
    \/ IndexReposReturns

SpecMain == InitMain /\ [][NextMain]_vars

(***************************************************************************)
(* Embedder.embed_batch                                                    *)
(***************************************************************************)
MaxTexts == 201

\* embedder.py:14
BatchSize == 100

\* the inputs of the model: n texts that repeat with period m
TextInputs ==
    {[k \in 1..n |-> "text " \o ToString(k % m)] : n \in 0..MaxTexts, m \in {1, 3}}

\* variant of BatchOf whose slice runs one text into the next batch
BatchOf_OneMore(ts, i) == PySlice(ts, i, i + BatchSize + 1)

\* embedder.py:56  texts[i:i + self.batch_size]
BatchOf(ts, i) == PySlice(ts, i, i + BatchSize)

\* embedder.py:59-64: the API returns one vector per input, in input order
ApiResponse(batch) == [k \in 1..Len(batch) |-> EmbeddingOf(batch[k])]

\* variant of AfterFailure that swallows the exception and goes on with the
\* next batch
AfterFailure_Continue(i) == [pc |-> "loop", i |-> i + BatchSize]

\* embedder.py:78-84: the exception is logged and re-raised; the loop ends
AfterFailure(i) == [pc |-> "raised", i |-> i]

\* the frame of the embed_batch actions
embed_frame == <<chunk_vars, retrieve_vars, index_vars, input_vars, validate_vars, query_vars,
                 main_vars, by_file_vars>>

\* embedder.py:49-53: embed_batch is called; an empty input returns [] at once
EmbedBatchCall ==
    /\ embed_pc = "idle"
    /\ batch_start' = 0
    /\ embeddings' = <<>>
    /\ IF texts = <<>>
       THEN embed_pc' = "returned" /\ embed_result' = <<>>
       ELSE embed_pc' = "loop" /\ embed_result' = None
    /\ UNCHANGED <<texts, api_calls>>
    /\ UNCHANGED embed_frame

\* embedder.py:55-76: one iteration of the loop whose API call succeeds
EmbedBatchStep ==
    /\ embed_pc = "loop"
    /\ batch_start < Len(texts)
    /\ LET batch == BatchOf(texts, batch_start)
       IN  /\ api_calls' = Append(api_calls, [input |-> batch, ok |-> TRUE])
           /\ embeddings' = embeddings \o ApiResponse(batch)
    /\ batch_start' = batch_start + BatchSize
    /\ UNCHANGED <<embed_pc, texts, embed_result>>
    /\ UNCHANGED embed_frame

\* embedder.py:55-62, 78-84: one iteration of the loop whose API call raises
EmbedBatchFails ==
    /\ embed_pc = "loop"
    /\ batch_start < Len(texts)
    /\ api_calls' = Append(api_calls, [input |-> BatchOf(texts, batch_start), ok |-> FALSE])
    /\ embed_pc' = AfterFailure(batch_start).pc
    /\ batch_start' = AfterFailure(batch_start).i
    /\ UNCHANGED <<texts, embeddings, embed_result>>
    /\ UNCHANGED embed_frame

\* embedder.py:55, 86: range(0, len(texts), batch_size) is exhausted
EmbedBatchReturn ==
    /\ embed_pc = "loop"
    /\ batch_start >= Len(texts)
    /\ embed_pc' = "returned"
    /\ embed_result' = embeddings
    /\ UNCHANGED <<texts, batch_start, embeddings, api_calls>>
    /\ UNCHANGED embed_frame

InitEmbed ==
    /\ texts \in TextInputs
    /\ embed_pc = "idle"
    /\ batch_start = 0
    /\ embeddings = <<>>
    /\ api_calls = <<>>
    /\ embed_result = None
    /\ ChunkIdle
    /\ RetrieveIdle
    /\ IndexIdle
    /\ InputIdle
    /\ ValidateIdle
    /\ QueryIdle
    /\ MainIdle
    /\ ByFileIdle

NextEmbed ==
    \/ EmbedBatchCall
    \/ EmbedBatchStep
    \/ EmbedBatchFails
    \/ EmbedBatchReturn

SpecEmbed == InitEmbed /\ [][NextEmbed]_vars

(***************************************************************************)
(* InputValidator.validate_query                                           *)
(***************************************************************************)
\* how far past max_query_length the queries of the model go
MaxExcess == 2

\* validator.py:139
MinQueryLength == 3

\* validator.py:138
MaxQueryLength == 500

CharAt(s, p) == SubSeq(s, p, p)

UpperLetters == "ABCDEFGHIJKLMNOPQRSTUVWXYZ"

LowerLetters == "abcdefghijklmnopqrstuvwxyz"

\* the lower-case letter of each upper-case letter
LowerOf ==
    [c \in {CharAt(UpperLetters, k) : k \in 1..26} |->
        CharAt(LowerLetters, CHOOSE k \in 1..26 : CharAt(UpperLetters, k) = c)]

\* str.lower() on one character
LowerChar(c) == IF c \in DOMAIN LowerOf THEN LowerOf[c] ELSE c

RECURSIVE LowerRange(_, _, _)
LowerRange(s, lo, hi) ==
    IF lo > hi THEN ""
    ELSE IF lo = hi THEN LowerChar(CharAt(s, lo))
    ELSE LET mid == (lo + hi) \div 2
         IN  LowerRange(s, lo, mid) \o LowerRange(s, mid + 1, hi)

\* validator.py:172  query.lower()
Lower(s) == LowerRange(s, 1, Len(s))

\* variant of IgnoreCase that compares the letters as they are written
IgnoreCase_CaseSensitive(s) == s

\* validator.py:167  re.IGNORECASE: the text and the pattern are compared
\* with the case of their letters folded
IgnoreCase(s) == Lower(s)

\* the characters \s stands for
IsSpace(c) == c \in {" ", "\t", "\n", "\r", "\f"}

RECURSIVE SkipSpaces(_, _)
\* the first position from p on that holds no white space
SkipSpaces(s, p) ==
    IF p <= Len(s) /\ IsSpace(CharAt(s, p)) THEN SkipSpaces(s, p + 1) ELSE p

\* the literal lit stands at position p of s
LitAt(s, p, lit) ==
    /\ p + Len(lit) - 1 <= Len(s)
    /\ SubSeq(s, p, p + Len(lit) - 1) = lit

Lit(l) == [kind |-> "lit", lit |-> l, min |-> 0]

Spaces(n) == [kind |-> "spaces", lit |-> "", min |-> n]

EndOfString == [kind |-> "end", lit |-> "", min |-> 0]

\* validator.py:159-164
SqlPatterns ==
    << <<Lit(";"), Spaces(0), Lit("DROP"), Spaces(1), Lit("TABLE")>>,
       <<Lit(";"), Spaces(0), Lit("DELETE"), Spaces(1), Lit("FROM")>>,
       <<Lit("UNION"), Spaces(1), Lit("SELECT")>>,
       <<Lit("--"), Spaces(0), EndOfString>> >>

RECURSIVE MatchAt(_, _, _, _)
\* the items of a pattern from the k-th on match s at position p; a run of
\* white space is taken whole, which loses no match because the item after
\* it never starts with white space
MatchAt(s, p, items, k) ==
    IF k > Len(items) THEN TRUE
    ELSE LET item == items[k]
         IN  CASE item.kind = "lit" ->
                    /\ LitAt(s, p, IgnoreCase(item.lit))
                    /\ MatchAt(s, p + Len(item.lit), items, k + 1)
               [] item.kind = "spaces" ->
                    LET q == SkipSpaces(s, p)
                    IN  q - p >= item.min /\ MatchAt(s, q, items, k + 1)
               [] item.kind = "end" ->
                    \/ p = Len(s) + 1
                    \/ p = Len(s) /\ CharAt(s, p) = "\n"

\* validator.py:167  re.search(pattern, query, re.IGNORECASE)
Search(items, s) ==
    \E folded \in {IgnoreCase(s)} : \E p \in 1..(Len(folded) + 1) : MatchAt(folded, p, items, 1)

\* sub in s
Contains(s, sub) == \E t \in {s} : \E p \in 1..(Len(t) + 1) : LitAt(t, p, sub)

\* variant of TooShort that also turns away a query of the minimum length
TooShort_Inclusive(q) == Len(q) <= MinQueryLength

\* validator.py:152
TooShort(q) == Len(q) < MinQueryLength

\* validator.py:155
TooLong(q) == Len(q) > MaxQueryLength

\* validator.py:166-174: one of the SQL patterns or script markers is found
LooksLikeInjection(q) ==
    \/ \E k \in 1..Len(SqlPatterns) : Search(SqlPatterns[k], q)
    \/ Contains(Lower(q), "<script")
    \/ Contains(Lower(q), "javascript:")

\* validator.py:141-176
ValidateQuery(q) ==
    IF TooShort(q)
    THEN [ok |-> FALSE,
          reason |-> "Query too short (minimum " \o ToString(MinQueryLength) \o " characters)"]
    ELSE IF TooLong(q)
    THEN [ok |-> FALSE,
          reason |-> "Query too long (maximum " \o ToString(MaxQueryLength) \o " characters)"]
    ELSE IF LooksLikeInjection(q)
    THEN [ok |-> FALSE, reason |-> "Invalid query format"]
    ELSE [ok |-> TRUE, reason |-> None]

RECURSIVE Pad(_)
\* n letters
Pad(n) ==
    IF n = 0 THEN "" ELSE IF n = 1 THEN "a" ELSE Pad(n \div 2) \o Pad(n - n \div 2)

\* how many letters stand before the core of a short query
ShortPads == 0..4

\* how many letters stand before the core of a long query
LongPads ==
    {MaxQueryLength - 13, MaxQueryLength - 12, MaxQueryLength - 1}
        \cup (MaxQueryLength..(MaxQueryLength + MaxExcess))

\* the cores of the queries of the model: the signatures in several letter
\* cases and spacings, texts that only resemble them, and plain text
Cores ==
    {"", "b", "how do I parse", "; DROP TABLE", "; drop table", "; Drop Table",
     ";DROP TABLE", ";\tdrop\n table", "DROP TABLE", "; DROPTABLE",
     "; DELETE FROM", "; delete FROM", ";delete  from", "DELETE FROM",
     "UNION SELECT", "union select", "uNiOn SeLeCt", "union\tselect", "UNIONSELECT",
     "--", "-- ", "--\n", "-- x", "- -", "a--b --",
     "<script", "<SCRIPT>", "<ScRiPt", "< script", "script",
     "javascript:", "JavaScript:", "JAVASCRIPT:", "javascript", "java script:"}

\* what stands after the core
Tails == {"", " x"}

\* the cores of the long queries
LongCores == {"", "b", "; DROP TABLE", "; drop table", "uNiOn SeLeCt", "--", "<ScRiPt"}

Queries ==
    {Pad(n) \o core \o tail : n \in ShortPads, core \in Cores, tail \in Tails}
        \cup {Pad(n) \o core : n \in LongPads, core \in LongCores}

\* the frame of the validate_query action
input_frame == <<chunk_vars, retrieve_vars, index_vars, embed_vars, validate_vars, query_vars,
                 main_vars, by_file_vars>>

\* validator.py:141-176
ValidateQueryCall ==
    /\ input_pc = "idle"
    /\ input_result' = ValidateQuery(query)
    /\ input_pc' = "done"
    /\ UNCHANGED query
    /\ UNCHANGED input_frame

InitInput ==
    /\ query \in Queries
    /\ input_pc = "idle"
    /\ input_result = None
    /\ ChunkIdle
    /\ RetrieveIdle
    /\ IndexIdle
    /\ EmbedIdle
    /\ ValidateIdle
    /\ QueryIdle
    /\ MainIdle
    /\ ByFileIdle

NextInput == ValidateQueryCall

SpecInput == InitInput /\ [][NextInput]_vars

(***************************************************************************)
(* ResponseValidator.validate                                              *)
(***************************************************************************)
\* the longest retrieved context of the model
MaxContext == 2

\* validator.py:13
MaxStalenessDays == 180

Digits == "0123456789"

\* \w: a letter, a digit or the underscore
WordChars ==
    {CharAt(UpperLetters, k) : k \in 1..26} \cup {CharAt(LowerLetters, k) : k \in 1..26}
        \cup {CharAt(Digits, k) : k \in 1..10} \cup {"_"}

IsWordChar(c) == c \in WordChars

\* [\w\-./]
IsPathChar(c) == IsWordChar(c) \/ c \in {"-", ".", "/"}

RECURSIVE EndOfRun(_, _)
\* the first position from p on that holds no path character
EndOfRun(s, p) ==
    IF p <= Len(s) /\ IsPathChar(CharAt(s, p)) THEN EndOfRun(s, p + 1) ELSE p

\* validator.py:95-98: [\w\-./]+\.\w+ matches the whole of the run s[lo..hi]:
\* the extension after the last dot is a non-empty word and something stands
\* before that dot
IsPathWithExtension(s, lo, hi) ==
    \E dot \in (lo + 1)..(hi - 1) :
        /\ CharAt(s, dot) = "."
        /\ \A k \in (dot + 1)..hi : IsWordChar(CharAt(s, k))

RECURSIVE FindAll(_, _, _, _)
\* validator.py:103  re.findall: the groups of the matches found from
\* position p on, scanning from left to right; a match is opened by open, is
\* a run of path characters and is closed by close, and the scan goes on
\* after the closing character
FindAll(s, open, close, p) ==
    IF p > Len(s) THEN {}
    ELSE LET hi == EndOfRun(s, p + 1) - 1
         IN  IF /\ CharAt(s, p) = open
                /\ hi + 1 <= Len(s)
                /\ CharAt(s, hi + 1) = close
                /\ IsPathWithExtension(s, p + 1, hi)
             THEN {SubSeq(s, p + 1, hi)} \cup FindAll(s, open, close, hi + 2)
             ELSE FindAll(s, open, close, p + 1)

\* the backquote, which a string of this module cannot hold, is written ^
Backquote == "^"

\* validator.py:94-99: the opening and closing character of each pattern
CitationPatterns ==
    {<<"[", "]">>, <<"(", ")">>, <<"\"", "\"">>, <<Backquote, Backquote>>}

\* validator.py:101-105: the set of citations of a response
ExtractCitations(s) ==
    UNION {FindAll(t, pat[1], pat[2], 1) : pat \in CitationPatterns, t \in {s}}

\* validator.py:107  list(citations): the set in some order
CitationLists(s) ==
    LET found == ExtractCitations(s)
        n == Cardinality(found)
    IN  {o \in Orderings(found) : Len(o) = n}

\* the hour at which validate runs
Now == 24 * 1000

\* a commit_date as the store hands it out: an ISO string, written here as
\* the hour it names
IsoDate(hours_ago) == IsoFormat(Now - hours_ago)

\* a string datetime.fromisoformat does not accept
MalformedDate == [kind |-> "malformed", hour |-> 0]

\* validator.py:48  chunk.get('commit_date') is truthy
HasDate(d) == d.kind # "none"

\* validator.py:50  datetime.fromisoformat accepts the string
ParsesAsDate(d) == d.kind = "iso"

\* validator.py:51  (datetime.now(tz) - commit_date).days: whole days, rounded down
AgeDays(d) == (Now - d.hour) \div 24

\* validator.py:55  commit_date.date()
DateOf(d) == "day " \o ToString(d.hour \div 24)

\* variant of IsStale that already flags the threshold age
IsStale_Inclusive(age_days) == age_days >= MaxStalenessDays

\* validator.py:53
IsStale(age_days) == age_days > MaxStalenessDays

\* validator.py:40  {chunk['file_path'] for chunk in retrieved_chunks}
ValidPaths(retrieved) == {retrieved[k].file_path : k \in 1..Len(retrieved)}

\* validator.py:47  next((c for c in retrieved_chunks if c['file_path'] == citation), None)
FirstChunkOf(retrieved, citation) ==
    retrieved[CHOOSE k \in 1..Len(retrieved) :
                 /\ retrieved[k].file_path = citation
                 /\ \A j \in 1..(k - 1) : retrieved[j].file_path # citation]

\* variant of Hallucinated that lets every citation pass
Hallucinated_Never(citation, retrieved) == FALSE

\* validator.py:43
Hallucinated(citation, retrieved) == citation \notin ValidPaths(retrieved)

\* validator.py:35-37
NoCitationErrors(cits) == IF Len(cits) = 0 THEN <<"Response has no citations">> ELSE <<>>

\* validator.py:42-44
HallucinationErrors(cits, retrieved) ==
    LET Bad(c) == Hallucinated(c, retrieved)
        bad == SelectSeq(cits, Bad)
    IN  [k \in 1..Len(bad) |-> "Hallucinated citation: " \o bad[k]]

\* validator.py:48-53: the citation has a chunk with a date that parses and
\* is older than the threshold (a date that does not parse is logged and
\* skipped, validator.py:57-58)
StaleCitation(c, retrieved) ==
    /\ c \in ValidPaths(retrieved)
    /\ LET chunk == FirstChunkOf(retrieved, c)
       IN  /\ HasDate(chunk.commit_date)
           /\ ParsesAsDate(chunk.commit_date)
           /\ IsStale(AgeDays(chunk.commit_date))

\* validator.py:54-56
StaleWarning(c, d) ==
    c \o " is " \o ToString(AgeDays(d)) \o " days old (last updated: " \o DateOf(d) \o ")"

\* validator.py:46-58
StalenessWarnings(cits, retrieved) ==
    LET Stale(c) == StaleCitation(c, retrieved)
        stale == SelectSeq(cits, Stale)
    IN  [k \in 1..Len(stale) |->
            StaleWarning(stale[k], FirstChunkOf(retrieved, stale[k]).commit_date)]

RECURSIVE LastNonSpace(_, _)
LastNonSpace(s, p) == IF p >= 1 /\ IsSpace(CharAt(s, p)) THEN LastNonSpace(s, p - 1) ELSE p

\* validator.py:61  len(response.strip())
StrippedLen(s) ==
    LET first == SkipSpaces(s, 1)
    IN  IF first > Len(s) THEN 0 ELSE LastNonSpace(s, Len(s)) - first + 1

\* validator.py:61-62
ShortWarnings(s) ==
    IF StrippedLen(s) < 20 THEN <<"Response is very short, may be incomplete">> ELSE <<>>

\* validator.py:65-70
ErrorPatterns == <<"I don't have", "I cannot find", "not available", "I apologize">>

\* validator.py:72-74
PatternWarnings(s) ==
    LET lowered == Lower(s)
        Found(pattern) == Contains(lowered, Lower(pattern))
        found == SelectSeq(ErrorPatterns, Found)
    IN  [k \in 1..Len(found) |-> "Response contains error pattern: '" \o found[k] \o "'"]

\* variant of IsValid that also wants the warnings to be empty
IsValid_NoWarnings(errs, warns) == Len(errs) = 0 /\ Len(warns) = 0

\* validator.py:76
IsValid(errs, warns) == Len(errs) = 0

\* validator.py:30-84: validate on the citations in the order cits
Validate(s, retrieved, cits) ==
    LET errs == NoCitationErrors(cits) \o HallucinationErrors(cits, retrieved)
        warns == StalenessWarnings(cits, retrieved) \o ShortWarnings(s) \o PatternWarnings(s)
    IN  [is_valid |-> IsValid(errs, warns), errors |-> errs, warnings |-> warns]

\* the paths of the retrieved chunks of the model
Paths == {"docs/real.md", "src/old-parser.py"}

\* hours between the commit and the validation: ten days, the last hour
\* before 181 days, 181 days, and 200 days
AgesInHours == {240, 181 * 24 - 1, 181 * 24, 200 * 24}

\* the commit dates of the retrieved chunks of the model
CommitDates == {IsoDate(h) : h \in AgesInHours} \cup {NoDate, MalformedDate}

\* the retrieved chunks of the model: the first path with every date, the
\* second path stale
ContextChunks ==
    {[file_path |-> "docs/real.md", commit_date |-> d] : d \in CommitDates}
        \cup {[file_path |-> "src/old-parser.py", commit_date |-> IsoDate(200 * 24)]}

Contexts == UNION {[1..n -> ContextChunks] : n \in 0..MaxContext}

\* the generated texts of the model
Responses ==
    {"The parser reads each file and returns its text.",
     "See [docs/real.md] for how the parser reads files.",
     "See [docs/missing.md] for how the parser reads files.",
     "Both [docs/real.md] and (docs/missing.md) describe the parser.",
     "Both [docs/real.md] and ^src/old-parser.py^ describe the parser.",
     "Read [docs/real.md], then (docs/real.md), then \"docs/real.md\".",
     "[docs/real.md]",
     "   (docs/real.md) is the place.   \n",
     "I apologize, the answer is not available in [docs/real.md].",
     "i cannot FIND it; I DON'T HAVE the file ^src/old-parser.py^",
     "The file [docs/real] and the file [my notes.md] are not cited.",
     "Neither [.md] nor [docs/real.md is a citation, but [..md] is one.",
     "Quoted \"docs/real.md\"src/old-parser.py\" closes after the first.",
     "",
     "ok"}

\* validator.py:127-129: the loop that adds one line per warning
RECURSIVE WarningLines(_, _)
WarningLines(warns, n) ==
    IF n = 0 THEN "" ELSE WarningLines(warns, n - 1) \o "- " \o warns[n] \o "\n"

\* variant of AddWarningsToResponse without the early return of an empty list
AddWarningsToResponse_AlwaysHeading(s, warns) ==
    s \o "\n\n! **Notes:**\n" \o WarningLines(warns, Len(warns))

\* validator.py:124-131: add_warnings_to_response; the warning sign of the
\* heading is written !
AddWarningsToResponse(s, warns) ==
    IF Len(warns) = 0 THEN s
    ELSE s \o "\n\n! **Notes:**\n" \o WarningLines(warns, Len(warns))

\* the frame of the validate actions
validate_frame == <<chunk_vars, retrieve_vars, index_vars, embed_vars, input_vars, query_vars,
                    main_vars, by_file_vars>>

\* validator.py:34, 86-107: validate is called and extracts the citations
ValidateCall ==
    /\ validate_pc = "idle"
    /\ citations' \in CitationLists(response)
    /\ validate_pc' = "checking"
    /\ UNCHANGED <<response, retrieved_chunks, validation, with_warnings>>
    /\ UNCHANGED validate_frame

\* validator.py:35-84: the five checks run and validate returns
ValidateReturn ==
    /\ validate_pc = "checking"
    /\ validation' = Validate(response, retrieved_chunks, citations)
    /\ validate_pc' = "returned"
    /\ UNCHANGED <<response, retrieved_chunks, citations, with_warnings>>
    /\ UNCHANGED validate_frame

\* validator.py:109-131: add_warnings_to_response is called with the text and
\* the warnings validate returned
AddWarningsCall ==
    /\ validate_pc = "returned"
    /\ with_warnings' = AddWarningsToResponse(response, validation.warnings)
    /\ validate_pc' = "annotated"
    /\ UNCHANGED <<response, retrieved_chunks, citations, validation>>
    /\ UNCHANGED validate_frame

InitValidate ==
    /\ response \in Responses
    /\ retrieved_chunks \in Contexts
    /\ citations = <<>>
    /\ validate_pc = "idle"
    /\ validation = None
    /\ with_warnings = None
    /\ ChunkIdle
    /\ RetrieveIdle
    /\ IndexIdle
    /\ EmbedIdle
    /\ InputIdle
    /\ QueryIdle
    /\ MainIdle
    /\ ByFileIdle

NextValidate ==
    \/ ValidateCall
    \/ ValidateReturn
    \/ AddWarningsCall

SpecValidate == InitValidate /\ [][NextValidate]_vars

(***************************************************************************)
(* LLMOrchestrator.query                                                   *)
(***************************************************************************)
\* the user queries of the model: too short, acceptable, an injection, too long
UserQueries == {"ab", "how do I parse files", "a UNION select b", Pad(MaxQueryLength + 1)}

\* the top_k arguments of the model
QueryTopKs == {1, 2}

\* retriever.py:19: the semantic_weight retrieve takes by default
DefaultSemanticWeight == <<7, 10>>

\* orchestrator.py:86-98: what the language model can answer: a text, or a
\* request to call tools
LLMReplies ==
    {[content |-> "See [docs/A.md] for how the parser is set up.", tool_calls |-> <<>>],
     [content |-> "See [docs/A.md] and (docs/Z.md) for the parser.", tool_calls |-> <<>>],
     [content |-> "I don't have that.", tool_calls |-> <<>>],
     [content |-> "", tool_calls |-> <<"search_codebase">>],
     [content |-> "", tool_calls |-> <<"open_file">>]}

\* variant of Proceeds that goes on whatever validate_query said
Proceeds_Always(check) == TRUE

\* orchestrator.py:46-47: query goes on only with an accepted query
Proceeds(check) == check.ok

\* orchestrator.py:48-57
RejectedAnswer(error_msg) ==
    [response |-> "Invalid query: " \o error_msg,
     citations |-> <<>>,
     validation |-> [is_valid |-> FALSE, errors |-> <<error_msg>>, warnings |-> <<>>]]

\* orchestrator.py:70-80
NoContextAnswer ==
    [response |-> "I couldn't find any relevant documentation for your question. Try rephrasing or check if the repository has been indexed.",
     citations |-> <<>>,
     validation |-> [is_valid |-> TRUE, errors |-> <<>>,
                     warnings |-> <<"No relevant context found">>]]

\* variant of ToolCallsText that answers with a citation of a retrieved file
ToolCallsText_Cites(tool_calls) ==
    IF \E k \in 1..Len(tool_calls) : tool_calls[k] = "search_codebase"
    THEN "I searched the codebase and found relevant information in [docs/A.md]."
    ELSE "Tool execution completed"

\* orchestrator.py:167-202: the text _handle_tool_calls returns; the results
\* of its own retrieval are not used
ToolCallsText(tool_calls) ==
    IF \E k \in 1..Len(tool_calls) : tool_calls[k] = "search_codebase"
    THEN "I searched the codebase and found relevant information. (Tool calling executed successfully)"
    ELSE "Tool execution completed"

\* orchestrator.py:204-213: the paths of the context found in the text
CitedPaths(s, context) ==
    {context[k].file_path : k \in {j \in 1..Len(context) : Contains(s, context[j].file_path)}}

\* the frame of the query actions that leave the retriever alone
query_frame == <<chunk_vars, index_vars, embed_vars, validate_vars, main_vars, by_file_vars>>

\* orchestrator.py:46-57: validate_query rejects the query and query returns
QueryRejected ==
    /\ query_pc = "idle"
    /\ ~Proceeds(ValidateQuery(query))
    /\ input_result' = ValidateQuery(query)
    /\ input_pc' = "done"
    /\ answer' = RejectedAnswer(ValidateQuery(query).reason)
    /\ query_pc' = "returned"
    /\ UNCHANGED <<query, retrievals, llm_calls, context_chunks, message>>
    /\ UNCHANGED retrieve_vars
    /\ UNCHANGED query_frame

\* orchestrator.py:46, 62-66 with retriever.py:15-36: the query is accepted
\* and retrieve is called
QueryRetrieve ==
    /\ query_pc = "idle"
    /\ Proceeds(ValidateQuery(query))
    /\ input_result' = ValidateQuery(query)
    /\ input_pc' = "done"
    /\ retrieve_pc = "idle"
    /\ top_k' \in QueryTopKs
    /\ repo_name' \in Repos \cup {None}
    /\ semantic_weight' = DefaultSemanticWeight
    /\ file_type' = None
    /\ semantic_results' = <<>>
    /\ keyword_results' = <<>>
    /\ results' = <<>>
    /\ retrieve_pc' = "embed"
    /\ retrievals' = retrievals + 1
    /\ query_pc' = "retrieving"
    /\ UNCHANGED <<query, llm_calls, context_chunks, message, answer, documents>>
    /\ UNCHANGED query_frame

\* orchestrator.py:160-162 with retriever.py:39-57: retrieve raised and the
\* exception leaves query
QueryRetrieveRaised ==
    /\ query_pc = "retrieving"
    /\ retrieve_pc = "raised"
    /\ query_pc' = "raised"
    /\ UNCHANGED <<retrievals, llm_calls, context_chunks, message, answer>>
    /\ UNCHANGED <<retrieve_vars, input_vars>>
    /\ UNCHANGED query_frame

\* orchestrator.py:68-80: retrieve returned nothing
QueryNoContext ==
    /\ query_pc = "retrieving"
    /\ retrieve_pc = "done"
    /\ results = <<>>
    /\ context_chunks' = results
    /\ answer' = NoContextAnswer
    /\ query_pc' = "returned"
    /\ UNCHANGED <<retrievals, llm_calls, message>>
    /\ UNCHANGED <<retrieve_vars, input_vars>>
    /\ UNCHANGED query_frame

\* orchestrator.py:82-98: retrieve returned context and the model is called
QueryCallsLLM ==
    /\ query_pc = "retrieving"
    /\ retrieve_pc = "done"
    /\ results # <<>>
    /\ context_chunks' = results
    /\ llm_calls' = llm_calls + 1
    /\ message' \in LLMReplies
    /\ query_pc' = "generating"
    /\ UNCHANGED <<retrievals, answer>>
    /\ UNCHANGED <<retrieve_vars, input_vars>>
    /\ UNCHANGED query_frame

\* orchestrator.py:98-158: the model answers; tool calls are handled
\* (orchestrator.py:185-191 retrieves once more for search_codebase), the
\* text is validated, the warnings are appended and query returns
QueryReturns ==
    /\ query_pc = "generating"
    /\ \E reply \in {message} :
          LET response_text ==
                  IF reply.tool_calls # <<>> THEN ToolCallsText(reply.tool_calls)
                  ELSE reply.content
              searched ==
                  IF reply.tool_calls # <<>> /\ reply.tool_calls[1] = "search_codebase"
                  THEN 1 ELSE 0
          IN  /\ retrievals' = retrievals + searched
              /\ \E cits \in CitationLists(response_text) :
                  \E v \in {Validate(response_text, context_chunks, cits)} :
                  \E shown \in {AddWarningsToResponse(response_text, v.warnings)} :
                  \E paths \in {CitedPaths(shown, context_chunks)} :
                  \E cited \in Orderings(paths) :
                     /\ Len(cited) = Cardinality(paths)
                     /\ answer' = [response |-> shown, citations |-> cited, validation |-> v]
    /\ query_pc' = "returned"
    /\ UNCHANGED <<llm_calls, context_chunks, message>>
    /\ UNCHANGED <<retrieve_vars, input_vars>>
    /\ UNCHANGED query_frame

\* orchestrator.py:160-162: the model call, or the retrieval of a tool call,
\* raises and the exception leaves query
QueryGenerationRaises ==
    /\ query_pc = "generating"
    /\ query_pc' = "raised"
    /\ UNCHANGED <<retrievals, llm_calls, context_chunks, message, answer>>
    /\ UNCHANGED <<retrieve_vars, input_vars>>
    /\ UNCHANGED query_frame

InitQuery ==
    /\ query \in UserQueries
    /\ input_pc = "idle"
    /\ input_result = None
    /\ documents \in SeedStores
    /\ top_k = 1
    /\ semantic_weight = DefaultSemanticWeight
    /\ repo_name = None
    /\ file_type = None
    /\ semantic_results = <<>>
    /\ keyword_results = <<>>
    /\ results = <<>>
    /\ retrieve_pc = "idle"
    /\ QueryIdle
    /\ ChunkIdle
    /\ IndexIdle
    /\ EmbedIdle
    /\ ValidateIdle
    /\ MainIdle
    /\ ByFileIdle

\* the steps of retrieve while query waits for it
RetrieveForQuery ==
    /\ query_pc = "retrieving"
    /\ \/ EmbedQuery
       \/ SemanticSearch
       \/ KeywordSearch
       \/ RerankAndReturn
       \/ CollaboratorRaises

NextQuery ==
    \/ QueryRejected
    \/ QueryRetrieve
    \/ RetrieveForQuery
    \/ QueryRetrieveRaised
    \/ QueryNoContext
    \/ QueryCallsLLM
    \/ QueryReturns
    \/ QueryGenerationRaises

SpecQuery == InitQuery /\ [][NextQuery]_vars

(***************************************************************************)
(* VectorDB.upsert_chunks followed by HybridRetriever.retrieve_by_file     *)
(***************************************************************************)
MaxStores == 2

ByFileLimit == 100

ByFilePaths == {"docs/a.md", "src/b.py"}

\* the chunk lists given to upsert_chunks: the chunks of one file of one
\* repository at one content version; the first chunk names the file in its
\* text, the second does not
StoredBatches ==
    {FileChunks(r, path,
                <<"See " \o path \o " for the setup, revision " \o ToString(v) \o ".",
                  "Install the package first, revision " \o ToString(v) \o ".">>,
                Metadata(TRUE, v, 0)) :
        r \in Repos, path \in ByFilePaths, v \in Versions}

\* db.py:264  to_tsvector('english', text) @@ plainto_tsquery('english', query):
\* the terms of the query are looked for in the text column of the row, and
\* in no other column; written as the query occurring in the text
TsMatch(row_text, q) == Contains(row_text, q)

\* the rows whose text matches the full-text query
TsHits(table, q) == {id \in DOMAIN table : TsMatch(table[id].text, q)}

\* retriever.py:145  [r for r in results if r['file_path'] == file_path]
RECURSIVE ExactPath(_, _)
ExactPath(rows, path) ==
    IF rows = <<>> THEN <<>>
    ELSE (IF Head(rows).file_path = path THEN <<Head(rows)>> ELSE <<>>)
         \o ExactPath(Tail(rows), path)

by_file_frame == <<chunk_vars, index_vars, embed_vars, input_vars, validate_vars, query_vars,
                   main_vars>>

\* db.py:90-149: upsert_chunks is called with the chunks of a file and commits
StoreChunks ==
    /\ retrieve_pc = "idle"
    /\ store_calls < MaxStores
    /\ \E batch \in StoredBatches :
          /\ documents' = UpsertChunks(documents, batch,
                                       [i \in 1..Len(batch) |-> EmbeddingOf(batch[i].text)],
                                       store_calls + 1)
          /\ stored_chunks' =
                [id \in DOMAIN stored_chunks \cup ChunkIdsOf(batch) |->
                    IF id \in ChunkIdsOf(batch)
                    THEN batch[CHOOSE i \in 1..Len(batch) : batch[i].chunk_id = id]
                    ELSE stored_chunks[id]]
    /\ store_calls' = store_calls + 1
    /\ UNCHANGED <<by_file_path, top_k, semantic_weight, repo_name, file_type,
                   semantic_results, keyword_results, results, retrieve_pc>>
    /\ UNCHANGED by_file_frame

\* retriever.py:121-147 with db.py:243-311: retrieve_by_file runs
\* keyword_search with the path as the query and a limit of 100, keeps the
\* rows of exactly that path and returns them
RetrieveByFile ==
    /\ retrieve_pc = "idle"
    /\ \E path \in ByFilePaths, repo \in Repos \cup {None} :
          /\ by_file_path' = path
          /\ repo_name' = repo
          /\ \E ids \in {KeywordMatches(TsHits(documents, path), repo)} :
             \E order \in Orderings(ids) :
                /\ Len(order) = Cardinality(ids)
                /\ keyword_results' =
                      Take([i \in 1..Len(order) |-> Doc(documents[order[i]], "rank")],
                           ByFileLimit)
          /\ results' = ExactPath(keyword_results', path)
    /\ retrieve_pc' = "done"
    /\ UNCHANGED <<stored_chunks, store_calls, documents, top_k, semantic_weight, file_type,
                   semantic_results>>
    /\ UNCHANGED by_file_frame

\* db.py:22-51: the table is empty before the first upsert
InitByFile ==
    /\ ByFileIdle
    /\ RetrieveIdle
    /\ ChunkIdle
    /\ IndexIdle
    /\ EmbedIdle
    /\ InputIdle
    /\ ValidateIdle
    /\ QueryIdle
    /\ MainIdle

NextByFile ==
    \/ StoreChunks
    \/ RetrieveByFile

SpecByFile == InitByFile /\ [][NextByFile]_vars

(***************************************************************************)
(* Properties of retrieve / _rerank                                        *)
(***************************************************************************)
\* 1-based position of chunk id in a result list, 0 when it is not in it
RankIn(docs, id) ==
    IF \E i \in 1..Len(docs) : docs[i].chunk_id = id
    THEN CHOOSE i \in 1..Len(docs) : docs[i].chunk_id = id
    ELSE 0

Candidates ==
    {semantic_results[i].chunk_id : i \in 1..Len(semantic_results)}
        \cup {keyword_results[i].chunk_id : i \in 1..Len(keyword_results)}

Returned == {results[i].chunk_id : i \in 1..Len(results)}

ResultIds == [i \in 1..Len(results) |-> results[i].chunk_id]

\* w * 1/(60 + rs) + (1 - w) * 1/(60 + rl), an absent list contributing 0
FusedScore(id) ==
    LET rs == RankIn(semantic_results, id)
        rl == RankIn(keyword_results, id)
        s == IF rs = 0 THEN Zero ELSE RatMul(semantic_weight, <<1, 60 + rs>>)
        l == IF rl = 0 THEN Zero
             ELSE RatMul(<<semantic_weight[2] - semantic_weight[1], semantic_weight[2]>>,
                         <<1, 60 + rl>>)
    IN  RatAdd(s, l)

\* C1: the combined_score of every returned candidate is
\* w * 1/(60 + rs) + (1 - w) * 1/(60 + rl) over its 1-based positions, a list
\* it is absent from contributing 0.
C1_CombinedScoreIsRRF ==
    retrieve_pc = "done" =>
        \A i \in 1..Len(results) : results[i].combined_score = FusedScore(results[i].chunk_id)

C1_Witness ==
    /\ retrieve_pc = "done"
    /\ semantic_weight = <<7, 10>>
    /\ \E i \in 1..Len(results) :
          /\ RankIn(semantic_results, results[i].chunk_id) > 1
          /\ RankIn(keyword_results, results[i].chunk_id) > 0
          /\ RankIn(keyword_results, results[i].chunk_id)
                # RankIn(semantic_results, results[i].chunk_id)
    /\ \E i \in 1..Len(results) : RankIn(semantic_results, results[i].chunk_id) = 0
    /\ \E i \in 1..Len(results) : RankIn(keyword_results, results[i].chunk_id) = 0

\* larger than any rank a result list can hold
Absent == 2 * MaxTopK + 1

ChunkIdOrder == [id \in ChunkIds |->
                    CASE id = "A" -> 1 [] id = "B" -> 2 [] id = "C" -> 3 [] OTHER -> 4]

\* tie-break key: semantic rank (absent last), lexical rank (absent last), chunk_id
TieBefore(a, b) ==
    LET sa == IF RankIn(semantic_results, a) = 0 THEN Absent ELSE RankIn(semantic_results, a)
        sb == IF RankIn(semantic_results, b) = 0 THEN Absent ELSE RankIn(semantic_results, b)
        la == IF RankIn(keyword_results, a) = 0 THEN Absent ELSE RankIn(keyword_results, a)
        lb == IF RankIn(keyword_results, b) = 0 THEN Absent ELSE RankIn(keyword_results, b)
    IN  \/ sa < sb
        \/ sa = sb /\ la < lb
        \/ sa = sb /\ la = lb /\ ChunkIdOrder[a] < ChunkIdOrder[b]

RanksBefore(a, b) ==
    \/ RatLess(FusedScore(b), FusedScore(a))
    \/ FusedScore(a) = FusedScore(b) /\ TieBefore(a, b)

\* C2: the returned sequence is in descending order of fused score, equal
\* scores in the order of semantic rank, then lexical rank, then chunk_id, and
\* every candidate left out comes after every returned one in that order.
C2_SortedWithTieBreak ==
    retrieve_pc = "done" =>
        /\ \A i, j \in 1..Len(results) :
              i < j => RanksBefore(results[i].chunk_id, results[j].chunk_id)
        /\ \A i \in 1..Len(results) : \A c \in Candidates \ Returned :
              RanksBefore(results[i].chunk_id, c)

C2_Witness ==
    /\ retrieve_pc = "done"
    /\ \E i, j \in 1..Len(results) :
          /\ i < j
          /\ results[i].combined_score = results[j].combined_score
          /\ results[i].combined_score # Zero
          /\ RankIn(semantic_results, results[i].chunk_id) > 0
          /\ RankIn(semantic_results, results[j].chunk_id) = 0
          /\ ChunkIdOrder[results[j].chunk_id] < ChunkIdOrder[results[i].chunk_id]

\* C3: retrieve returns exactly min(top_k, number of distinct candidate
\* chunk_ids) results and no chunk_id twice.
C3_LengthAndDistinct ==
    retrieve_pc = "done" =>
        /\ Len(results) = Min(top_k, Cardinality(Candidates))
        /\ Len(results) <= top_k
        /\ \A i, j \in 1..Len(results) :
              i # j => results[i].chunk_id # results[j].chunk_id

C3_Witness ==
    /\ retrieve_pc = "done"
    /\ top_k >= 2
    /\ Cardinality(Candidates) > top_k
    /\ Len(results) = top_k
    /\ Candidates \cap {semantic_results[i].chunk_id : i \in 1..Len(semantic_results)}
          \cap {keyword_results[i].chunk_id : i \in 1..Len(keyword_results)} # {}

IsFusionExample ==
    /\ retrieve_pc = "done"
    /\ [i \in 1..Len(semantic_results) |-> semantic_results[i].chunk_id] = <<"A", "B", "C">>
    /\ [i \in 1..Len(keyword_results) |-> keyword_results[i].chunk_id] = <<"B", "C", "D">>
    /\ semantic_weight = <<7, 10>>

\* C4: semantic order [A, B, C], lexical order [B, C, D], weight 0.7, K = 60:
\* the fused order is B, C, A, D (cut to top_k), so B ranks above D.
C4_FusionExample ==
    IsFusionExample =>
        /\ ResultIds = Take(<<"B", "C", "A", "D">>, top_k)
        /\ K = 60

C4_Witness ==
    /\ IsFusionExample
    /\ ResultIds = <<"B", "C", "A", "D">>

\* C5: every result of retrieve has the requested repository and the
\* requested file type.
C5_ResultsPassFilters ==
    retrieve_pc = "done" =>
        \A i \in 1..Len(results) :
            /\ (repo_name # None => results[i].repo_name = repo_name)
            /\ (file_type # None => results[i].file_type = file_type)


(***************************************************************************)
(* Properties of chunk_text                                                *)
(***************************************************************************)
\* the token positions (0-based) of the source that chunk i holds
Positions(i) == {p \in 0..(Len(tokens) - 1) :
                    /\ windows[i].start <= p
                    /\ p < windows[i].start + Len(windows[i].tokens)}

RECURSIVE ConcatWindows(_)
ConcatWindows(ws) == IF ws = <<>> THEN <<>> ELSE Head(ws).tokens \o ConcatWindows(Tail(ws))

GoodConfig == 0 <= chunk_overlap /\ chunk_overlap < chunk_size

\* C6: a text of at most chunk_size tokens is returned as the single chunk,
\* and that chunk is the text that was passed in.
C6_ShortTextReturnedUnchanged ==
    (chunk_pc = "done" /\ Len(Encode(text)) <= chunk_size) => chunks = <<text>>

C6_Witness ==
    /\ chunk_pc = "done"
    /\ Len(tokens) = chunk_size
    /\ chunk_overlap \in 1..(chunk_size - 1)
    /\ "w" \in {text[i] : i \in 1..Len(text)}
    /\ chunks = <<text>>

\* C7: with 0 <= chunk_overlap < chunk_size the chunks start at strictly
\* increasing positions, each holds the source tokens of its window, and when
\* chunk_text returns every token position of the source lies in some chunk.
C7_CoverageInOrder ==
    GoodConfig =>
        /\ \A i \in 1..Len(windows) :
              /\ windows[i].start >= 0
              /\ windows[i].tokens =
                    SubSeq(tokens, windows[i].start + 1,
                           windows[i].start + Len(windows[i].tokens))
        /\ \A i \in 1..(Len(windows) - 1) : windows[i + 1].start > windows[i].start
        /\ chunk_pc = "done" =>
              \A p \in 0..(Len(tokens) - 1) : \E i \in 1..Len(windows) : p \in Positions(i)

C7_Witness ==
    /\ chunk_pc = "done"
    /\ GoodConfig
    /\ chunk_overlap > 0
    /\ Len(chunks) >= 3
    /\ Len(windows[Len(windows)].tokens) < chunk_size

\* C8: chunk_text fails fast on chunk_overlap >= chunk_size: the while loop is
\* never entered with a configuration under which start cannot advance.
C8_FailsFastOnBadConfig ==
    chunk_pc = "loop" => chunk_overlap < chunk_size

\* C9 as stated: 512/50 over 1000 tokens gives exactly 2 chunks that share
\* exactly 50 tokens.
C9_TwoChunks ==
    (chunk_pc = "done" /\ chunk_size = DefaultChunkSize
        /\ chunk_overlap = DefaultChunkOverlap /\ Len(tokens) = 1000) =>
        /\ Len(chunks) = 2
        /\ Cardinality(Positions(1) \cap Positions(2)) = 50

\* C9 amended: 512/50 over 1000 tokens gives exactly 3 chunks, the windows
\* starting at 0, 462 and 924, and consecutive chunks share exactly 50 tokens.
C9_ThreeChunks ==
    (chunk_pc = "done" /\ chunk_size = DefaultChunkSize
        /\ chunk_overlap = DefaultChunkOverlap /\ Len(tokens) = 1000) =>
        /\ Len(chunks) = 3
        /\ <<windows[1].start, windows[2].start, windows[3].start>> = <<0, 462, 924>>
        /\ \A i \in 1..2 : Cardinality(Positions(i) \cap Positions(i + 1)) = 50

C9_Witness ==
    /\ chunk_pc = "done"
    /\ chunk_size = DefaultChunkSize
    /\ chunk_overlap = DefaultChunkOverlap
    /\ Len(tokens) = 1000
    /\ Len(chunks[Len(chunks)]) = 76

\* C10: with chunk_overlap = 0 the chunks of a text longer than chunk_size
\* partition its token positions: the first starts at 0, each next one starts
\* right after the last token of its predecessor, and the chunks' tokens
\* concatenated in order are the source tokens.
C10_DisjointContiguous ==
    (chunk_pc = "done" /\ chunk_overlap = 0 /\ Len(tokens) > chunk_size) =>
        /\ windows[1].start = 0
        /\ \A i \in 1..(Len(windows) - 1) :
              /\ windows[i + 1].start = windows[i].start + Len(windows[i].tokens)
              /\ Positions(i) \cap Positions(i + 1) = {}
        /\ ConcatWindows(windows) = tokens

C10_Witness ==
    /\ chunk_pc = "done"
    /\ chunk_overlap = 0
    /\ Len(tokens) > chunk_size
    /\ Len(chunks) >= 3
    /\ Len(windows[Len(windows)].tokens) < chunk_size
    /\ "?" \in {chunks[1][i] : i \in 1..Len(chunks[1])}

(***************************************************************************)
(* Properties of index_repo and upsert_chunks                              *)
(***************************************************************************)
\* number of chunks of the same file before position i of all_chunks
OrdinalAt(i) ==
    Cardinality({j \in 1..(i - 1) : all_chunks[j].file_path = all_chunks[i].file_path})

\* C11: the chunk_id depends only on (repository, file_path, ordinal): over
\* all runs, whatever the text and the provenance of the chunk, two generated
\* chunks have the same id exactly when they have the same triple, and within
\* one file of a run the ordinals are 0, 1, 2, ... in chunk order.
C11_ChunkIdOfTriple ==
    /\ \A g, h \in generated :
          (g.repo = h.repo /\ g.path = h.path /\ g.ordinal = h.ordinal)
              <=> g.chunk_id = h.chunk_id
    /\ \A i \in 1..Len(all_chunks) :
          /\ all_chunks[i].chunk_id
                = ChunkIdOf(run_repo, all_chunks[i].file_path, OrdinalAt(i))
          /\ [repo |-> run_repo, path |-> all_chunks[i].file_path,
              ordinal |-> OrdinalAt(i), chunk_id |-> all_chunks[i].chunk_id] \in generated

\* a run holds two chunks of one file and a chunk of another file, and one of
\* its chunks has the id of a stored row with another text
C11_Witness ==
    /\ index_pc = "files"
    /\ \E i, j, k \in 1..Len(all_chunks) :
          /\ i < j
          /\ all_chunks[i].file_path = all_chunks[j].file_path
          /\ all_chunks[k].file_path # all_chunks[i].file_path
          /\ all_chunks[i].chunk_id \in DOMAIN documents
          /\ documents[all_chunks[i].chunk_id].text # all_chunks[i].text
          /\ documents[all_chunks[i].chunk_id].commit_hash # all_chunks[i].commit_hash

\* C12: the store holds one row per chunk_id ever upserted, and the row's
\* text, embedding, commit_hash, commit_date and author are those of the most
\* recent upsert that carried the chunk_id.
C12_LastUpsertWins ==
    /\ DOMAIN documents = DOMAIN last_upsert
    /\ \A id \in DOMAIN documents :
          /\ documents[id].chunk_id = id
          /\ documents[id].text = last_upsert[id].chunk.text
          /\ documents[id].embedding = last_upsert[id].embedding
          /\ documents[id].commit_hash = last_upsert[id].chunk.commit_hash
          /\ documents[id].commit_date = last_upsert[id].chunk.commit_date
          /\ documents[id].author = last_upsert[id].chunk.author

\* the same (repo, file_path, ordinal) was indexed twice with different text:
\* the row holds the later text and its vector
C12_Witness ==
    /\ index_pc = "returned"
    /\ \E i \in 1..Len(all_chunks) :
          LET id == all_chunks[i].chunk_id
          IN  /\ id \in DOMAIN last_upsert
              /\ last_upsert[id].replaced \notin {None, all_chunks[i].text}
              /\ id \in DOMAIN documents
              /\ documents[id].text = all_chunks[i].text
              /\ documents[id].embedding = EmbeddingOf(all_chunks[i].text)
              /\ documents[id].last_indexed = utcnow

(***************************************************************************)
(* Properties of embed_batch                                               *)
(***************************************************************************)
RECURSIVE InputsOf(_, _)
\* the inputs of the first n API calls, one after another
InputsOf(calls, n) ==
    IF n = 0 THEN <<>> ELSE InputsOf(calls, n - 1) \o calls[n].input

\* C13: when every API call succeeds, embed_batch on n texts returns n
\* vectors, the i-th being the embedding of the i-th text, and its calls were
\* made on consecutive slices of at most 100 texts that together are the input.
C13_SameLengthAndOrder ==
    embed_pc = "returned" =>
        /\ Len(embed_result) = Len(texts)
        /\ \A k \in 1..Len(texts) : embed_result[k] = EmbeddingOf(texts[k])
        /\ \A c \in 1..Len(api_calls) :
              /\ api_calls[c].ok
              /\ Len(api_calls[c].input) \in 1..BatchSize
        /\ InputsOf(api_calls, Len(api_calls)) = texts

\* more than two full batches of texts that are not all the same were embedded
C13_Witness ==
    /\ embed_pc = "returned"
    /\ Len(api_calls) = 3
    /\ Len(api_calls[3].input) < BatchSize
    /\ Len(embed_result) > 2 * BatchSize
    /\ embed_result[1] # embed_result[2]

\* C14: if the API call of a batch fails, embed_batch raises, no vector is
\* returned, not even those of the batches that had succeeded, and the
\* failing call is the last one made.
C14_AllOrNothing ==
    \A c \in 1..Len(api_calls) :
        ~api_calls[c].ok =>
            /\ embed_pc = "raised"
            /\ embed_result = None
            /\ c = Len(api_calls)

\* the second batch failed after the first had produced its vectors, and a
\* third batch was still to come
C14_Witness ==
    /\ embed_pc = "raised"
    /\ Len(api_calls) = 2
    /\ api_calls[1].ok
    /\ ~api_calls[2].ok
    /\ Len(embeddings) = BatchSize
    /\ batch_start + BatchSize < Len(texts)
    /\ embed_result = None

(***************************************************************************)
(* Properties of validate_query                                            *)
(***************************************************************************)
\* the signatures as the specification writes them, in lower case
Signatures == {"; drop table", "; delete from", "union select", "<script", "javascript:"}

\* s ends with "--"
TrailingDashes(s) == Len(s) >= 2 /\ SubSeq(s, Len(s) - 1, Len(s)) = "--"

\* q contains one of the signatures as written, in any letter case
ContainsSignature(q) ==
    \/ \E sig \in Signatures : Contains(Lower(q), sig)
    \/ TrailingDashes(q)

\* C15: a query in which none of the validator's injection patterns is found
\* is accepted, with no reason, exactly when its length is between 3 and 500
\* inclusive, and is rejected with a reason otherwise.
C15_LengthBoundary ==
    (input_pc = "done" /\ ~LooksLikeInjection(query)) =>
        /\ input_result.ok <=> (Len(query) >= 3 /\ Len(query) <= 500)
        /\ input_result.ok => input_result.reason = None
        /\ ~input_result.ok => input_result.reason \notin {None, ""}

\* a query of exactly the minimum length was accepted
C15_Witness ==
    /\ input_pc = "done"
    /\ Len(query) = 3
    /\ ~LooksLikeInjection(query)
    /\ input_result = [ok |-> TRUE, reason |-> None]

\* C16: a query of admissible length that contains one of the signatures as
\* written, in any letter case, is rejected with a non-empty reason.
C16_SignaturesRejected ==
    (/\ input_pc = "done"
     /\ Len(query) >= 3
     /\ Len(query) <= 500
     /\ ContainsSignature(query)) =>
        /\ ~input_result.ok
        /\ input_result.reason \notin {None, ""}

\* a signature in mixed letter case, inside a longer query, was rejected
C16_Witness ==
    /\ input_pc = "done"
    /\ Contains(query, "uNiOn SeLeCt")
    /\ Len(query) > Len("uNiOn SeLeCt")
    /\ Len(query) <= 500
    /\ input_result = [ok |-> FALSE, reason |-> "Invalid query format"]

(***************************************************************************)
(* Properties of ResponseValidator.validate                                *)
(***************************************************************************)
\* how often x occurs in the list xs
CountOf(xs, x) == Cardinality({k \in 1..Len(xs) : xs[k] = x})

\* w starts with prefix
StartsWith(w, prefix) == Len(w) >= Len(prefix) /\ SubSeq(w, 1, Len(prefix)) = prefix

\* the staleness warnings about path c among the list ws
StalenessWarningsAbout(ws, c) ==
    {k \in 1..Len(ws) : StartsWith(ws[k], c \o " is ") /\ Contains(ws[k], " days old")}

\* C18: validate returns is_valid = true exactly when the returned errors
\* list is empty, whatever the warnings are.
C18_ValidIffNoErrors ==
    validate_pc = "returned" => (validation.is_valid <=> validation.errors = <<>>)

\* a response with two warnings and no error was returned as valid
C18_Witness ==
    /\ validate_pc = "returned"
    /\ validation.is_valid
    /\ validation.errors = <<>>
    /\ Len(validation.warnings) >= 2

\* C19: the errors are exactly one "Hallucinated citation" error naming the
\* path for each distinct extracted citation that is no file_path of the
\* retrieved context, and one error when nothing is cited; a response citing
\* docs/missing.md when only docs/real.md was retrieved is invalid.
C19_HallucinatedCitations ==
    validate_pc = "returned" =>
        LET cited == ExtractCitations(response)
            paths == {retrieved_chunks[k].file_path : k \in 1..Len(retrieved_chunks)}
        IN  /\ \A c \in cited :
                  CountOf(validation.errors, "Hallucinated citation: " \o c)
                      = IF c \in paths THEN 0 ELSE 1
            /\ CountOf(validation.errors, "Response has no citations")
                  = IF cited = {} THEN 1 ELSE 0
            /\ Len(validation.errors)
                  = Cardinality(cited \ paths) + IF cited = {} THEN 1 ELSE 0
            /\ ("docs/missing.md" \in cited /\ paths = {"docs/real.md"})
                  => ~validation.is_valid

\* docs/missing.md and docs/real.md were cited and only docs/real.md was
\* retrieved: one error, naming docs/missing.md
C19_Witness ==
    /\ validate_pc = "returned"
    /\ citations \in {<<"docs/real.md", "docs/missing.md">>, <<"docs/missing.md", "docs/real.md">>}
    /\ Len(retrieved_chunks) >= 1
    /\ \A k \in 1..Len(retrieved_chunks) : retrieved_chunks[k].file_path = "docs/real.md"
    /\ validation.errors = <<"Hallucinated citation: docs/missing.md">>
    /\ ~validation.is_valid

\* C20: for each distinct cited path whose matching chunk, the first
\* retrieved chunk with that path, carries a commit_date that parses, there
\* is exactly one staleness warning if the age in whole days exceeds 180 and
\* none if it is 180 or less; the warning is no error and validity is what
\* the citations alone make it.
C20_StalenessWarning ==
    validate_pc = "returned" =>
        LET cited == ExtractCitations(response)
            paths == {retrieved_chunks[k].file_path : k \in 1..Len(retrieved_chunks)}
        IN  /\ \A c \in cited \cap paths :
                  LET first == CHOOSE k \in 1..Len(retrieved_chunks) :
                                  /\ retrieved_chunks[k].file_path = c
                                  /\ \A j \in 1..(k - 1) : retrieved_chunks[j].file_path # c
                      d == retrieved_chunks[first].commit_date
                  IN  d.kind = "iso" =>
                          Cardinality(StalenessWarningsAbout(validation.warnings, c))
                              = IF (Now - d.hour) \div 24 > 180 THEN 1 ELSE 0
            /\ \A c \in cited : StalenessWarningsAbout(validation.errors, c) = {}
            /\ validation.is_valid <=> (cited # {} /\ cited \subseteq paths)

\* a cited chunk 200 days old gave exactly one staleness warning and the
\* response is valid
C20_Witness ==
    /\ validate_pc = "returned"
    /\ citations = <<"docs/real.md">>
    /\ retrieved_chunks = <<[file_path |-> "docs/real.md", commit_date |-> IsoDate(200 * 24)]>>
    /\ validation.warnings
          = <<"docs/real.md is 200 days old (last updated: day 800)">>
    /\ validation.is_valid

(***************************************************************************)
(* Properties of LLMOrchestrator.query                                     *)
(***************************************************************************)
\* C17: when validate_query rejects the query, query never calls retrieve
\* (so no embedding is requested and the store is not queried) nor the
\* language model, and the validation it returns has is_valid = false with
\* the rejection reason as its only error.
C17_ValidationBeforeRetrieval ==
    \A check \in {ValidateQuery(query)} :
        ~check.ok =>
            /\ retrievals = 0
            /\ retrieve_pc = "idle"
            /\ llm_calls = 0
            /\ query_pc \in {"idle", "returned"}
            /\ query_pc = "returned" =>
                  answer.validation = [is_valid |-> FALSE,
                                       errors |-> <<check.reason>>,
                                       warnings |-> <<>>]

\* an injection was turned away before anything was retrieved
C17_Witness ==
    /\ query_pc = "returned"
    /\ query = "a UNION select b"
    /\ retrievals = 0
    /\ llm_calls = 0
    /\ retrieve_pc = "idle"
    /\ answer.response = "Invalid query: Invalid query format"
    /\ answer.validation.errors = <<"Invalid query format">>

(***************************************************************************)
(* ResponseValidator.add_warnings_to_response                              *)
(***************************************************************************)
\* where the line of the k-th warning starts in the text that
\* add_warnings_to_response returned (0-based), the heading being h long
RECURSIVE LineStart(_, _, _, _)
LineStart(s, h, warns, k) ==
    IF k = 1 THEN Len(s) + h
    ELSE LineStart(s, h, warns, k - 1) + Len(warns[k - 1]) + 3

\* C21: add_warnings_to_response returns the original text exactly when the
\* warnings list is empty; with warnings, the original text is an unmodified
\* prefix of the result, and the appended block is the heading followed by
\* one line "- warning" per warning, in the order of the list, and nothing else
C21_WarningsAppended ==
    with_warnings # None =>
        \A warns \in {validation.warnings} :
            /\ (with_warnings = response) <=> (warns = <<>>)
            /\ warns # <<>> =>
                \A h \in {Len("\n\n! **Notes:**\n")} :
                    /\ Len(with_warnings) = LineStart(response, h, warns, Len(warns) + 1)
                    /\ SubSeq(with_warnings, 1, Len(response)) = response
                    /\ SubSeq(with_warnings, Len(response) + 1, Len(response) + h)
                           = "\n\n! **Notes:**\n"
                    /\ \A k \in 1..Len(warns) :
                          \A at \in {LineStart(response, h, warns, k)} :
                              SubSeq(with_warnings, at + 1, at + Len(warns[k]) + 3)
                                  = "- " \o warns[k] \o "\n"

\* add_warnings_to_response has returned for a list of two different
\* warnings
C21_Witness ==
    /\ validate_pc = "annotated"
    /\ Len(validation.warnings) >= 2
    /\ validation.warnings[1] # validation.warnings[2]
    /\ with_warnings # response

(***************************************************************************)
(* index_repos and the failures of a run                                   *)
(***************************************************************************)
\* the run made no call after the one to sync_repo, which raised
SyncFailed(calls) == calls # <<>> /\ calls[1] = "sync_repo raised"

\* C22: in index_repos a sync failure of one repository ends only the run of
\* that repository: the run embeds and upserts no chunk and leaves the table
\* as it was, and index_repo is still called for every configured repository,
\* in the order of the configuration, before index_repos finishes
C22_SyncFailureEndsOneRun ==
    /\ Len(runs_log) <= Len(configured_repos)
    /\ \A i \in 1..Len(runs_log) :
          /\ runs_log[i].repo = configured_repos[i]
          /\ SyncFailed(runs_log[i].calls) =>
                /\ runs_log[i].calls = <<"sync_repo raised">>
                /\ runs_log[i].outcome = "raised"
                /\ runs_log[i].chunks = 0
                /\ runs_log[i].store_unchanged
    /\ main_pc = "done" => Len(runs_log) = Len(configured_repos)
    /\ index_pc # "idle" => run_repo = configured_repos[Len(runs_log) + 1]

\* index_repos has finished after the sync of the first repository failed and
\* the run of the second one stored chunks
C22_Witness ==
    /\ main_pc = "done"
    /\ Len(runs_log) = 2
    /\ SyncFailed(runs_log[1].calls)
    /\ runs_log[2].outcome = "returned"
    /\ ~runs_log[2].store_unchanged
    /\ runs_log[2].repo # runs_log[1].repo

\* C23: when embed_batch fails in index_repo, the failure leaves index_repo,
\* upsert_chunks is not called in the run, and the table is exactly as it was
\* when the run started
C23_EmbedFailureLeavesStore ==
    (\E i \in 1..Len(calls_of_run) : calls_of_run[i] = "embed_batch raised") =>
        /\ index_pc = "raised"
        /\ \A i \in 1..Len(calls_of_run) :
              calls_of_run[i] \notin {"upsert_chunks", "upsert_chunks raised"}
        /\ documents = store_before

\* embed_batch failed in a run whose chunks would have replaced the text of a
\* row that an earlier run stored
C23_Witness ==
    /\ index_pc = "raised"
    /\ calls_of_run = <<"sync_repo", "embed_batch raised">>
    /\ \E i \in 1..Len(all_chunks) :
          /\ all_chunks[i].chunk_id \in DOMAIN documents
          /\ documents[all_chunks[i].chunk_id].text # all_chunks[i].text

(***************************************************************************)
(* Storing a chunk and retrieving it by its file path                      *)
(***************************************************************************)
\* C24: round trip: for every chunk stored by upsert_chunks, retrieve_by_file
\* called with the exact file_path of the chunk and its repository returns a
\* result for the chunk whose text, commit_hash and repo_name are the stored
\* ones
C24_RoundTripByFile ==
    (retrieve_pc = "done" /\ by_file_path # None) =>
        \A id \in DOMAIN stored_chunks :
            (/\ stored_chunks[id].file_path = by_file_path
             /\ stored_chunks[id].repo_name = repo_name) =>
                \E i \in 1..Len(results) :
                    /\ results[i].chunk_id = id
                    /\ results[i].text = stored_chunks[id].text
                    /\ results[i].commit_hash = stored_chunks[id].commit_hash
                    /\ results[i].repo_name = stored_chunks[id].repo_name

(***************************************************************************)
(* index_repo: a file that fails                                           *)
(***************************************************************************)
\* the chunks of all_chunks that come from the file
ChunksOfFile(path) == {i \in 1..Len(all_chunks) : all_chunks[i].file_path = path}

\* the files of the run whose processing raised, in the order of the loop
RECURSIVE RaisedFiles(_)
RaisedFiles(log) ==
    IF log = <<>> THEN <<>>
    ELSE RaisedFiles(SubSeq(log, 1, Len(log) - 1))
         \o (IF log[Len(log)].raised THEN <<log[Len(log)].path>> ELSE <<>>)

\* C25: in index_repo a file that gives no content or whose processing raises
\* is skipped: it adds no chunk, the loop goes on to the next file until every
\* file of the run has been taken, the chunks of the other files are all
\* embedded and upserted when the run stores its chunks, and each file whose
\* processing raised has its entry in the errors of the run
C25_FailedFileSkipped ==
    (calls_of_run # <<>> /\ calls_of_run[1] = "sync_repo") =>
        /\ Len(files_log) + Len(files) = Len(RepoFiles[run_repo])
        /\ \A i \in 1..Len(files_log) :
              /\ files_log[i].path = RepoFiles[run_repo][i]
              /\ Cardinality(ChunksOfFile(files_log[i].path)) = files_log[i].chunks
              /\ files_log[i].raised => files_log[i].chunks = 0
        /\ index_pc \in {"returned", "raised"} => files = <<>>
        /\ errors_of_run = RaisedFiles(files_log)
        /\ (\E k \in 1..Len(calls_of_run) : calls_of_run[k] = "upsert_chunks") =>
              \A i \in 1..Len(all_chunks) :
                  /\ all_chunks[i].chunk_id \in DOMAIN documents
                  /\ documents[all_chunks[i].chunk_id].text = all_chunks[i].text
                  /\ documents[all_chunks[i].chunk_id].embedding = EmbeddingOf(all_chunks[i].text)

\* the processing of the first file raised, the second file gave chunks, and
\* the run stored them
C25_Witness ==
    /\ index_pc = "returned"
    /\ Len(files_log) = 2
    /\ files_log[1].raised
    /\ files_log[2].chunks > 0
    /\ calls_of_run = <<"sync_repo", "embed_batch", "upsert_chunks">>
    /\ errors_of_run # <<>>

(***************************************************************************)
(* chunk_text: the windows of a long text                                  *)
(***************************************************************************)
\* the token position (0-based) after the last token of chunk i
EndOf(i) == windows[i].start + Len(windows[i].tokens)

\* C26: for a text of n > chunk_size tokens and stride s = chunk_size -
\* chunk_overlap > 0, chunk_text returns one chunk for every i >= 0 with
\* i * s < n, chunk i being the decoded tokens [i * s, min(i * s + chunk_size,
\* n)); no chunk has more than chunk_size tokens, and a chunk with fewer is
\* followed only by chunks with fewer
C26_WindowsByStride ==
    (chunk_pc = "done" /\ Len(tokens) > chunk_size /\ chunk_size - chunk_overlap > 0) =>
        \A s \in {chunk_size - chunk_overlap} : \A n \in {Len(tokens)} :
            /\ Len(chunks) = Cardinality({i \in 0..(n - 1) : i * s < n})
            /\ \A i \in 0..(Len(chunks) - 1) :
                  /\ chunks[i + 1] = Decode(SubSeq(tokens, i * s + 1, Min(i * s + chunk_size, n)))
                  /\ windows[i + 1].start = i * s
                  /\ Len(windows[i + 1].tokens) <= chunk_size
                  /\ Len(windows[i + 1].tokens) < chunk_size =>
                        \A j \in (i + 1)..(Len(chunks) - 1) :
                            Len(windows[j + 1].tokens) < chunk_size

\* chunk_text has returned four chunks of a text with a two-token character,
\* the last two of them shorter than chunk_size
C26_Witness ==
    /\ chunk_pc = "done"
    /\ chunk_overlap > 0
    /\ chunk_overlap < chunk_size
    /\ Len(chunks) >= 4
    /\ Len(windows[Len(windows) - 1].tokens) < chunk_size
    /\ Len(windows[1].tokens) = chunk_size
    /\ "W1" \in {tokens[i] : i \in 1..Len(tokens)}

\* C30 as stated: for n > chunk_size tokens and 0 <= chunk_overlap <
\* chunk_size, every chunk after the first holds a token position beyond the
\* end of the chunk before it
C30_NoContainedChunk ==
    (GoodConfig /\ Len(tokens) > chunk_size) =>
        \A i \in 1..(Len(windows) - 1) :
            \E p \in Positions(i + 1) : p >= EndOf(i)

\* C30 amended: for n > chunk_size tokens and 0 <= chunk_overlap <
\* chunk_size, every chunk after the first starts after the start of the
\* chunk before it, and holds a token position beyond the end of that chunk
\* exactly when that chunk stops before the end of the text; the loop goes
\* on until a start position reaches n, so after a chunk that ends at the last
\* token the chunks that follow lie wholly inside it
C30_ContainedOnlyAtEnd ==
    (GoodConfig /\ Len(tokens) > chunk_size) =>
        /\ \A i \in 1..(Len(windows) - 1) :
              /\ windows[i + 1].start > windows[i].start
              /\ (\E p \in Positions(i + 1) : p >= EndOf(i)) <=> (EndOf(i) < Len(tokens))
              /\ EndOf(i) = Len(tokens) => Positions(i + 1) \subseteq Positions(i)
        /\ chunk_pc = "done" =>
              windows[Len(windows)].start + (chunk_size - chunk_overlap) >= Len(tokens)

\* chunk_text has returned a last chunk that lies wholly inside the chunk
\* before it
C30_Witness ==
    /\ chunk_pc = "done"
    /\ GoodConfig
    /\ Len(tokens) > chunk_size
    /\ Len(windows) >= 3
    /\ EndOf(Len(windows) - 1) = Len(tokens)
    /\ Positions(Len(windows)) \subseteq Positions(Len(windows) - 1)
    /\ Positions(Len(windows)) # {}

(***************************************************************************)
(* _rerank: the record returned for a chunk                                *)
(***************************************************************************)
\* the record is a copy of doc with the key combined_score added
CopyWithScore(record, doc) ==
    /\ DOMAIN record = DOMAIN doc \cup {"combined_score"}
    /\ \A f \in DOMAIN doc : record[f] = doc[f]

\* C27: the record retrieve returns for a chunk_id that both queries returned
\* is a copy of the record of the semantic query (it carries the similarity
\* signal and that record's payload) with combined_score added; for a
\* chunk_id that only the lexical query returned it is a copy of the lexical
\* record, with combined_score added as well
C27_SemanticRecordPreferred ==
    retrieve_pc = "done" =>
        \A i \in 1..Len(results) :
            IF \E j \in 1..Len(semantic_results) :
                  semantic_results[j].chunk_id = results[i].chunk_id
            THEN /\ results[i].signal = "similarity"
                 /\ \E j \in 1..Len(semantic_results) :
                       /\ semantic_results[j].chunk_id = results[i].chunk_id
                       /\ CopyWithScore(results[i], semantic_results[j])
            ELSE /\ results[i].signal = "rank"
                 /\ \E j \in 1..Len(keyword_results) :
                       /\ keyword_results[j].chunk_id = results[i].chunk_id
                       /\ CopyWithScore(results[i], keyword_results[j])

\* retrieve has returned a chunk that both queries found and a chunk that
\* only the lexical query found
C27_Witness ==
    /\ retrieve_pc = "done"
    /\ \E i \in 1..Len(results) :
          /\ \E j \in 1..Len(semantic_results) :
                semantic_results[j].chunk_id = results[i].chunk_id
          /\ \E j \in 1..Len(keyword_results) :
                keyword_results[j].chunk_id = results[i].chunk_id
    /\ \E i \in 1..Len(results) :
          /\ \A j \in 1..Len(semantic_results) :
                semantic_results[j].chunk_id # results[i].chunk_id
          /\ results[i].signal = "rank"

(***************************************************************************)
(* index_repo: rows of chunks that a file no longer has                    *)
(***************************************************************************)
\* C28: indexing never removes a row: over any sequence of index_repo runs
\* every chunk_id the table held when a run started, and every chunk_id ever
\* upserted, is still in the table; a row the run's chunks do not name is
\* exactly as it was, so after a file is indexed again with fewer chunks the
\* rows of its former higher ordinals keep their old text and still pass the
\* filters of both queries
C28_RowsNeverRemoved ==
    /\ DOMAIN store_before \subseteq DOMAIN documents
    /\ \A id \in DOMAIN store_before \ ChunkIdsOf(all_chunks) :
          documents[id] = store_before[id]
    /\ \A id \in DOMAIN last_upsert :
          /\ id \in DOMAIN documents
          /\ documents[id].text = last_upsert[id].chunk.text
          /\ id \in SemanticMatches({id}, documents[id].repo_name, documents[id].file_type)
          /\ id \in KeywordMatches({id}, documents[id].repo_name)

\* a run has stored one chunk for a file of which an earlier run had stored
\* two: the row of ordinal 1 is in the table with the text and commit of the
\* earlier content version
C28_Witness ==
    /\ index_pc = "returned"
    /\ calls_of_run = <<"sync_repo", "embed_batch", "upsert_chunks">>
    /\ \E g \in generated :
          /\ g.repo = run_repo
          /\ g.ordinal = 1
          /\ g.chunk_id \in DOMAIN documents \ ChunkIdsOf(all_chunks)
          /\ \E i \in 1..Len(all_chunks) :
                /\ all_chunks[i].file_path = g.path
                /\ all_chunks[i].chunk_id = ChunkIdOf(g.repo, g.path, 0)
                /\ documents[g.chunk_id].commit_hash # all_chunks[i].commit_hash
                /\ documents[g.chunk_id].text = ChunkTextOf(g.path, 1, 2)

(***************************************************************************)
(* query: an answer of the model that is a tool call                       *)
(***************************************************************************)
\* C29: whenever the model answers with a tool call, the text query returns
\* is one of the fixed acknowledgements of _handle_tool_calls, whatever the
\* retrievals gave, it holds no citation, and the validation query returns
\* has is_valid = FALSE with the error "Response has no citations"
C29_ToolCallNeverValid ==
    (query_pc = "returned" /\ llm_calls > 0 /\ message.tool_calls # <<>>) =>
        /\ answer.response \in
              {"I searched the codebase and found relevant information. (Tool calling executed successfully)",
               "Tool execution completed"}
        /\ ExtractCitations(answer.response) = {}
        /\ answer.validation.is_valid = FALSE
        /\ answer.validation.errors = <<"Response has no citations">>
        /\ answer.citations = <<>>

\* query has returned after a search_codebase tool call, with retrieved
\* context and a second retrieval behind it
C29_Witness ==
    /\ query_pc = "returned"
    /\ message.tool_calls = <<"search_codebase">>
    /\ retrievals = 2
    /\ Len(context_chunks) >= 2
    /\ answer.validation.is_valid = FALSE

====
